---- MODULE Spec2Model ----
(***************************************************************************)
(* A model of the gts library: the Location algebra (location.go), its     *)
(* parser and formatter, and the feature table (FeatureList.Add).          *)
(*                                                                         *)
(* Locations are records tagged by `kind`, one shape per Go type:          *)
(*   PointLocation      [kind, Position]                                   *)
(*   RangeLocation      [kind, Start, End, Partial5, Partial3]             *)
(*   AmbiguousLocation  [kind, Start, End]                                 *)
(*   BetweenLocation    [kind, Start, End]                                 *)
(*   ComplementLocation [kind, Location]                                   *)
(*   JoinLocation       [kind, Locations]                                  *)
(*   OrderLocation      [kind, Locations]                                  *)
(* A Go panic is modelled by a result record whose `panic` field is TRUE.  *)
(***************************************************************************)
EXTENDS Integers, Sequences, FiniteSets, TLC

\* ------------------------------------------------------------------ bounds
\* Largest 0-based coordinate of the locations that are shifted.
MaxCoord == 3
\* Largest |amount| of a Shift call.
MaxAmount == 2
\* Most features in a feature table.
MaxFeatures == 4
\* Largest 0-based coordinate of the feature locations.
MaxFeatCoord == 2
\* Largest small 0-based coordinate of the locations that are formatted.
MaxParseCoord == 2
\* A coordinate whose 1-based form has two digits.
BigCoord == 9
\* Largest 0-based coordinate of the locations LocationLess compares.
MaxLessCoord == 2
\* Locate: the length of the sequences.
MaxSeqLen == 3
\* Parsing: the number of tokens of the token strings.
MaxTokens == 3
\* Delete: the length of the short sequences.
MaxEditLen == 4
\* Feature formatting: the qualifier lines of the source, the later changes.
MaxQualifiers == 3
MaxChanges == 2
\* Command line: the number of registered flags.
MaxFlags == 3

MaxPositionals == 2

MaxArgs == 3

MaxRecords == 2

MaxSelectLen == 3

MaxBases == 12

\* ------------------------------------------------------- location algebra
NewPointLocation(pos) == [kind |-> "Point", Position |-> pos]

NewPartialRangeLocation(start, end, p5, p3) ==
    [kind |-> "Range", Start |-> start, End |-> end, Partial5 |-> p5, Partial3 |-> p3]

NewRangeLocation(start, end) == NewPartialRangeLocation(start, end, FALSE, FALSE)

NewAmbiguousLocation(start, end) == [kind |-> "Ambiguous", Start |-> start, End |-> end]

NewBetweenLocation(start, end) == [kind |-> "Between", Start |-> start, End |-> end]

NewComplementLocation(l) == [kind |-> "Complement", Location |-> l]

NewJoinLocation(locs) == [kind |-> "Join", Locations |-> locs]

NewOrderLocation(locs) == [kind |-> "Order", Locations |-> locs]

\* The nil Location; also the value of a location variable of a
\* specification that is not running.
NoLocation == [kind |-> "None"]

IsSpan(l) == l.kind \in {"Range", "Ambiguous", "Between"}

IsList(l) == l.kind \in {"Join", "Order"}

RECURSIVE LocLen(_)
RECURSIVE SumLen(_)
\* LocLen is the Len method; SumLen is the loop of JoinLocation.Len and OrderLocation.Len.
SumLen(locs) == IF locs = <<>> THEN 0 ELSE LocLen(Head(locs)) + SumLen(Tail(locs))

LocLen(l) ==
    CASE l.kind = "Point" -> 1
      [] IsSpan(l) -> l.End - l.Start
      [] l.kind = "Complement" -> LocLen(l.Location)
      [] IsList(l) -> SumLen(l.Locations)

\* The result of a Map call: either a panic or the global index v.
MapPanic == [panic |-> TRUE, v |-> 0]

MapValue(v) == [panic |-> FALSE, v |-> v]

RECURSIVE Map(_, _)
RECURSIVE MapList(_, _)
\* The loop of JoinLocation.Map and OrderLocation.Map, after the index check.
MapList(locs, index) ==
    IF locs = <<>> THEN MapPanic
    ELSE IF index < LocLen(Head(locs)) THEN Map(Head(locs), index)
    ELSE MapList(Tail(locs), index - LocLen(Head(locs)))

Map(l, index) ==
    CASE l.kind = "Point" ->
            IF index < 0 \/ index >= 1 THEN MapPanic ELSE MapValue(l.Position)
      [] IsSpan(l) ->
            IF index < 0 \/ index >= LocLen(l) THEN MapPanic ELSE MapValue(l.Start + index)
      [] l.kind = "Complement" -> Map(l.Location, index)
      [] IsList(l) ->
            IF index < 0 THEN MapPanic ELSE MapList(l.Locations, index)

\* -------------------------------------------------------------- formatter
\* Text is a sequence of one-byte strings.
Digits == <<"0", "1", "2", "3", "4", "5", "6", "7", "8", "9">>

IsDigit(c) == \E d \in 1..10 : Digits[d] = c

DigitValue(c) == (CHOOSE d \in 1..10 : Digits[d] = c) - 1

RECURSIVE Itoa(_)
\* strconv.Itoa.
Itoa(n) ==
    IF n < 0 THEN <<"-">> \o Itoa(0 - n)
    ELSE IF n < 10 THEN <<Digits[n + 1]>>
    ELSE Itoa(n \div 10) \o <<Digits[(n % 10) + 1]>>

RECURSIVE String(_)
RECURSIVE JoinStrings(_)
\* strings.Join(tmp, ",") over the children's String().
JoinStrings(locs) ==
    IF locs = <<>> THEN <<>>
    ELSE IF Len(locs) = 1 THEN String(locs[1])
    ELSE String(locs[1]) \o <<",">> \o JoinStrings(Tail(locs))

\* Mutant of String: a range is written with its 0-based start.
StringZeroBased(l) ==
    CASE l.kind = "Point" -> Itoa(l.Position + 1)
      [] l.kind = "Range" ->
            (IF l.Partial5 THEN <<"<">> ELSE <<>>) \o Itoa(l.Start)
                \o <<".", ".">>
                \o (IF l.Partial3 THEN <<">">> ELSE <<>>) \o Itoa(l.End)
      [] l.kind = "Ambiguous" -> Itoa(l.Start + 1) \o <<".">> \o Itoa(l.End)
      [] l.kind = "Between" -> Itoa(l.Start + 1) \o <<"^">> \o Itoa(l.End)
      [] l.kind = "Complement" ->
            <<"c", "o", "m", "p", "l", "e", "m", "e", "n", "t", "(">>
                \o String(l.Location) \o <<")">>
      [] l.kind = "Join" ->
            <<"j", "o", "i", "n", "(">> \o JoinStrings(l.Locations) \o <<")">>
      [] l.kind = "Order" ->
            <<"o", "r", "d", "e", "r", "(">> \o JoinStrings(l.Locations) \o <<")">>

\* The String method of every Location type.
String(l) ==
    CASE l.kind = "Point" -> Itoa(l.Position + 1)
      [] l.kind = "Range" ->
            (IF l.Partial5 THEN <<"<">> ELSE <<>>) \o Itoa(l.Start + 1)
                \o <<".", ".">>
                \o (IF l.Partial3 THEN <<">">> ELSE <<>>) \o Itoa(l.End)
      [] l.kind = "Ambiguous" -> Itoa(l.Start + 1) \o <<".">> \o Itoa(l.End)
      [] l.kind = "Between" -> Itoa(l.Start + 1) \o <<"^">> \o Itoa(l.End)
      [] l.kind = "Complement" ->
            <<"c", "o", "m", "p", "l", "e", "m", "e", "n", "t", "(">>
                \o String(l.Location) \o <<")">>
      [] l.kind = "Join" ->
            <<"j", "o", "i", "n", "(">> \o JoinStrings(l.Locations) \o <<")">>
      [] l.kind = "Order" ->
            <<"o", "r", "d", "e", "r", "(">> \o JoinStrings(l.Locations) \o <<")">>

\* ------------------------------------------------------------ parser state
\* The pars.State the location parsers work on: the input buf, the 0-based
\* cursor pos, the number req of bytes the last Request asked for, and the
\* stack stk of the positions saved by Push.
FromString(text) == [buf |-> text, pos |-> 0, req |-> 0, stk |-> <<>>]

Push(st) == [st EXCEPT !.stk = Append(st.stk, st.pos)]

\* Pop backtracks to the most recently pushed position.
Pop(st) ==
    IF st.stk = <<>> THEN st
    ELSE [st EXCEPT !.pos = st.stk[Len(st.stk)],
                    !.req = 0,
                    !.stk = SubSeq(st.stk, 1, Len(st.stk) - 1)]

\* Drop discards the most recently pushed position.
Drop(st) ==
    IF st.stk = <<>> THEN st
    ELSE [st EXCEPT !.stk = SubSeq(st.stk, 1, Len(st.stk) - 1)]

\* A parser's outcome: the state it leaves, whether it returned nil, and the
\* value it set in the result.
Ok(st, v) == [st |-> st, ok |-> TRUE, val |-> v]

Err(st) == [st |-> st, ok |-> FALSE, val |-> 0]

\* state.Request(n): an error when fewer than n bytes are left.
Request(st, n) ==
    IF st.pos + n <= Len(st.buf) THEN Ok([st EXCEPT !.req = n], 0) ELSE Err(st)

\* state.Buffer(): the requested bytes.
Buffer(st) == SubSeq(st.buf, st.pos + 1, st.pos + st.req)

\* state.Advance(): moves the cursor past the requested bytes.
Advance(st) == [st EXCEPT !.pos = st.pos + st.req, !.req = 0]

\* The byte pars.Next returns along with an error.
NulByte == "NUL"

\* pars.Next: Request(1) and the byte requested; the cursor does not move.
NextByte(st) ==
    IF st.pos + 1 <= Len(st.buf)
    THEN [st |-> [st EXCEPT !.req = 1], ok |-> TRUE, c |-> st.buf[st.pos + 1]]
    ELSE [st |-> st, ok |-> FALSE, c |-> NulByte]

RECURSIVE DigitRun(_, _)
\* The number of digits in buf from the 0-based position p on.
DigitRun(buf, p) ==
    IF p < Len(buf) /\ IsDigit(buf[p + 1]) THEN 1 + DigitRun(buf, p + 1) ELSE 0

RECURSIVE Atoi(_, _, _)
\* The value of the k digits of buf from the 0-based position p on.
Atoi(buf, p, k) ==
    IF k = 0 THEN 0
    ELSE 10 * Atoi(buf, p, k - 1) + DigitValue(buf[p + k])

\* The length of the digits pars.Int takes at p: a lone zero, or a digit run.
IntLen(buf, p) ==
    IF p < Len(buf) /\ buf[p + 1] = "0" THEN 1 ELSE DigitRun(buf, p)

\* pars.Int once the k digits at p are known: an error that leaves the state
\* alone when there is none, else the cursor moves past them.
IntDone(st, p, k, neg) ==
    IF k = 0 THEN Err(st)
    ELSE Ok([st EXCEPT !.pos = p + k, !.req = 0],
            IF neg THEN 0 - Atoi(st.buf, p, k) ELSE Atoi(st.buf, p, k))

\* pars.Int: integer = [ "-" ], ( "0" | non-zero, { digit } ).
ParseInt(st) ==
    IF st.pos < Len(st.buf) /\ st.buf[st.pos + 1] = "-"
    THEN IntDone(st, st.pos + 1, IntLen(st.buf, st.pos + 1), TRUE)
    ELSE IntDone(st, st.pos, IntLen(st.buf, st.pos), FALSE)

\* bytes.Equal(state.Buffer(), word) after the Request q.
BufferIs(q, word) ==
    IF ~q.ok THEN q
    ELSE IF Buffer(q.st) # word THEN Err(q.st)
    ELSE q

\* Whether the next bytes are the given word: state.Request(len(word)) and
\* the comparison of state.Buffer().
Expect(st, word) == BufferIs(Request(st, Len(word)), word)

IsSpace(c) == c \in {" ", "\t", "\n", "\f", "\r"}

\* -------------------------------------------------------- location parsers
\* Each parser is a chain of steps; a step takes the outcome of the call
\* before it.

\* PointLocationParser, given the outcome of pars.Int.
PointOfInt(r) ==
    IF ~r.ok THEN Err(r.st) ELSE Ok(r.st, NewPointLocation(r.val - 1))

PointLocationParser(st) == PointOfInt(ParseInt(st))

\* RangeLocationParser, from the pars.Next after the end integer on.
RangeTail(n3, start, end, partial5, partial3) ==
    IF ~n3.ok /\ n3.c = ">"
    THEN Ok(Drop(Advance(n3.st)), NewPartialRangeLocation(start, end, partial5, TRUE))
    ELSE Ok(Drop(n3.st), NewPartialRangeLocation(start, end, partial5, partial3))

\* Mutant of RangeEnd: the end integer is stored minus 1, like the start.
RangeEndMinusOne(i2, start, partial5, partial3) ==
    IF ~i2.ok THEN Err(Pop(i2.st))
    ELSE RangeTail(NextByte(i2.st), start, i2.val - 1, partial5, partial3)

\* RangeLocationParser, from the end integer i2 on.
RangeEnd(i2, start, partial5, partial3) ==
    IF ~i2.ok THEN Err(Pop(i2.st))
    ELSE RangeTail(NextByte(i2.st), start, i2.val, partial5, partial3)

\* RangeLocationParser, from the pars.Next after `..` on; its error is
\* not looked at.
RangeMark(n2, start, partial5) ==
    RangeEnd(ParseInt(IF n2.c = ">" THEN Advance(n2.st) ELSE n2.st),
             start, partial5, n2.c = ">")

\* RangeLocationParser, from the check of `..` on.
RangeAfterDots(q, start, partial5) ==
    IF ~q.ok THEN Err(Pop(q.st))
    ELSE RangeMark(NextByte(Advance(q.st)), start, partial5)

\* RangeLocationParser, from the start integer i1 on.
RangeDots(i1, partial5) ==
    IF ~i1.ok THEN Err(Pop(i1.st))
    ELSE RangeAfterDots(Expect(i1.st, <<".", ".">>), i1.val - 1, partial5)

\* RangeLocationParser, from the first pars.Next on.
RangeStart(n0) ==
    IF ~n0.ok THEN Err(Pop(n0.st))
    ELSE RangeDots(ParseInt(IF n0.c = "<" THEN Advance(n0.st) ELSE n0.st),
                   n0.c = "<")

RangeLocationParser(st) == RangeStart(NextByte(Push(st)))

\* AmbiguousLocationParser (sep `.`) and BetweenLocationParser (sep `^`) have
\* one body; kind names the location type that is built.
SpanDone(i2, start, kind) ==
    IF ~i2.ok THEN Err(Pop(i2.st))
    ELSE Ok(Drop(i2.st), [kind |-> kind, Start |-> start, End |-> i2.val])

SpanEnd(n, start, sep, kind) ==
    IF ~n.ok THEN Err(Pop(n.st))
    ELSE IF n.c # sep THEN Err(Pop(n.st))
    ELSE SpanDone(ParseInt(Advance(n.st)), start, kind)

SpanSep(i1, sep, kind) ==
    IF ~i1.ok THEN Err(Pop(i1.st))
    ELSE SpanEnd(NextByte(i1.st), i1.val - 1, sep, kind)

SpanParser(st, sep, kind) == SpanSep(ParseInt(Push(st)), sep, kind)

AmbiguousLocationParser(st) == SpanParser(st, ".", "Ambiguous")

BetweenLocationParser(st) == SpanParser(st, "^", "Between")

RECURSIVE SkipSpaces(_)
\* The loop of locationDelimiter over the spaces after the comma.
SkipSpaces(n) ==
    IF n.ok /\ IsSpace(n.c) THEN SkipSpaces(NextByte(Advance(n.st))) ELSE n.st

\* locationDelimiter, from its first pars.Next on.
DelimiterComma(n) ==
    IF ~n.ok THEN Err(Pop(n.st))
    ELSE IF n.c # "," THEN Err(Pop(n.st))
    ELSE Ok(Drop(SkipSpaces(NextByte(Advance(n.st)))), 0)

\* locationDelimiter: a comma and the spaces after it.
locationDelimiter(st) == DelimiterComma(NextByte(Push(st)))

\* The check of the closing parenthesis that ends the Complement, Join and
\* Order parsers; v is the location they build.
CloseParen(n, v) ==
    IF ~n.ok THEN Err(Pop(n.st))
    ELSE IF n.c # ")" THEN Err(Pop(n.st))
    ELSE Ok(Drop(Advance(n.st)), v)

RECURSIVE LocationParser(_)
RECURSIVE moreLocations(_, _)
RECURSIVE Alternatives(_, _)

\* ComplementLocationParser.
ComplementClose(r) ==
    IF ~r.ok THEN Err(Pop(r.st))
    ELSE CloseParen(NextByte(r.st), NewComplementLocation(r.val))

ComplementInner(q) ==
    IF ~q.ok THEN Err(Pop(q.st)) ELSE ComplementClose(LocationParser(Advance(q.st)))

ComplementLocationParser(st) ==
    ComplementInner(
        Expect(Push(st), <<"c", "o", "m", "p", "l", "e", "m", "e", "n", "t", "(">>))

\* The loop of multipleLocationParser: while a delimiter follows, one more
\* location is parsed and appended to locs.
NextLocation(r, locs) ==
    IF ~r.ok THEN Err(Pop(r.st)) ELSE moreLocations(r.st, Append(locs, r.val))

AfterDelimiter(d, locs) ==
    IF ~d.ok THEN Ok(Drop(d.st), locs) ELSE NextLocation(LocationParser(d.st), locs)

moreLocations(st, locs) == AfterDelimiter(locationDelimiter(st), locs)

\* multipleLocationParser.
FirstLocation(r) ==
    IF ~r.ok THEN Err(Pop(r.st)) ELSE moreLocations(r.st, <<r.val>>)

multipleLocationParser(st) == FirstLocation(LocationParser(Push(st)))

\* JoinLocationParser and OrderLocationParser have one body. When
\* multipleLocationParser fails the error is returned without state.Pop().
ListClose(r, kind) ==
    IF ~r.ok THEN Err(r.st)
    ELSE CloseParen(NextByte(r.st), [kind |-> kind, Locations |-> r.val])

ListInner(q, kind) ==
    IF ~q.ok THEN Err(Pop(q.st))
    ELSE ListClose(multipleLocationParser(Advance(q.st)), kind)

ListParser(st, word, kind) == ListInner(Expect(Push(st), word), kind)

JoinLocationParser(st) == ListParser(st, <<"j", "o", "i", "n", "(">>, "Join")

OrderLocationParser(st) == ListParser(st, <<"o", "r", "d", "e", "r", "(">>, "Order")

\* The k-th alternative of LocationParser.
Alternative(st, k) ==
    CASE k = 1 -> RangeLocationParser(st)
      [] k = 2 -> OrderLocationParser(st)
      [] k = 3 -> JoinLocationParser(st)
      [] k = 4 -> ComplementLocationParser(st)
      [] k = 5 -> AmbiguousLocationParser(st)
      [] k = 6 -> BetweenLocationParser(st)
      [] k = 7 -> PointLocationParser(st)

\* pars.Any after the k-th alternative returned r: the first alternative that
\* returns nil wins.
TryNext(r, k) == IF r.ok \/ k = 7 THEN r ELSE Alternatives(r.st, k + 1)

Alternatives(st, k) == TryNext(Alternative(st, k), k)

\* pars.Any saves the position, and restores it when every alternative has
\* failed.
AnyDone(r) == IF r.ok THEN Ok(Drop(r.st), r.val) ELSE Err(Pop(r.st))

\* LocationParser = pars.Any(Range, Order, Join, Complement, Ambiguous,
\* Between, Point).
LocationParser(st) == AnyDone(Alternatives(Push(st), 1))

\* Mutant of Exact: input left over is accepted.
ExactAnyPrefix(r, text) ==
    IF r.ok THEN [ok |-> TRUE, val |-> r.val]
    ELSE [ok |-> FALSE, val |-> NoLocation]

\* pars.Exact(LocationParser).Error(errNotLocation): the parser must consume
\* all of the input.
Exact(r, text) ==
    IF r.ok /\ r.st.pos = Len(text) THEN [ok |-> TRUE, val |-> r.val]
    ELSE [ok |-> FALSE, val |-> NoLocation]

\* AsLocation: the Location, or the error errNotLocation.
AsLocation(text) == Exact(LocationParser(FromString(text)), text)

\* ----------------------------------------------------------------- Locate
\* Slice(seq, start, end): the bytes of seq in [start, end).
Slice(seq, start, end) == SubSeq(seq, start + 1, end)

\* The complement of one base; a byte outside the table stays as it is.
ComplementByte(c) ==
    CASE c = "a" -> "t"
      [] c = "t" -> "a"
      [] c = "c" -> "g"
      [] c = "g" -> "c"
      [] OTHER -> c

\* Complement(seq): every byte replaced by its complement.
Complement(seq) == [k \in 1..Len(seq) |-> ComplementByte(seq[k])]

\* make([]byte, n)
MakeBytes(n) == [k \in 1..n |-> NulByte]

\* copy(r[i:], src): as many bytes of src as fit into r from index i on.
Copy(r, i, src) ==
    [k \in 1..Len(r) |-> IF k > i /\ k <= i + Len(src) THEN src[k - i] ELSE r[k]]

RECURSIVE Locate(_, _)
RECURSIVE LocateEach(_, _, _, _)
RECURSIVE LocateEachNoAdvance(_, _, _, _)

\* Mutant of LocateEach: the write index stays where it is.
LocateEachNoAdvance(locs, seq, r, i) ==
    IF locs = <<>> THEN r
    ELSE LocateEachNoAdvance(Tail(locs), seq, Copy(r, i, Locate(Head(locs), seq)), i)

\* The loop of JoinLocation.Locate and OrderLocation.Locate: each child's
\* bytes are copied to r at index i, and i moves on by the child's Len().
LocateEach(locs, seq, r, i) ==
    IF locs = <<>> THEN r
    ELSE LocateEach(Tail(locs), seq, Copy(r, i, Locate(Head(locs), seq)),
                    i + LocLen(Head(locs)))

\* l.Locate(seq).Bytes()
Locate(l, seq) ==
    CASE l.kind = "Point" -> Slice(seq, l.Position, l.Position + 1)
      [] IsSpan(l) -> Slice(seq, l.Start, l.End)
      [] l.kind = "Complement" -> Complement(Locate(l.Location, seq))
      [] IsList(l) -> LocateEach(l.Locations, seq, MakeBytes(LocLen(l)), 0)

\* --------------------------------------------------------- LocationLess
\* The result of LocationLess: a panic (raised by a Map call) or the bool v.
LessPanic == [panic |-> TRUE, v |-> FALSE]

LessValue(v) == [panic |-> FALSE, v |-> v]

\* Mutant of LocationLess: a tie on both indices compares as smaller.
LocationLessOrEqual(a, b) ==
    LET a0 == Map(a, 0)
        b0 == Map(b, 0)
        a1 == Map(a, LocLen(a) - 1)
        b1 == Map(b, LocLen(b) - 1)
    IN  IF a0.panic \/ b0.panic THEN LessPanic
        ELSE IF a0.v < b0.v THEN LessValue(TRUE)
        ELSE IF b0.v < a0.v THEN LessValue(FALSE)
        ELSE IF a1.panic \/ b1.panic THEN LessPanic
        ELSE LessValue(a1.v <= b1.v)

LocationLess(a, b) ==
    LET a0 == Map(a, 0)
        b0 == Map(b, 0)
        a1 == Map(a, LocLen(a) - 1)
        b1 == Map(b, LocLen(b) - 1)
    IN  IF a0.panic \/ b0.panic THEN LessPanic
        ELSE IF a0.v < b0.v THEN LessValue(TRUE)
        ELSE IF b0.v < a0.v THEN LessValue(FALSE)
        ELSE IF a1.panic \/ b1.panic THEN LessPanic
        ELSE IF a1.v < b1.v THEN LessValue(TRUE)
        ELSE IF b1.v < a1.v THEN LessValue(FALSE)
        ELSE LessValue(FALSE)

\* ---------------------------------------------------------- feature table
\* A Feature: Key, Location and Qualifiers. Qualifiers is the ordinal of the
\* Add call that brought the feature; it stands for the qualifier values,
\* which tell apart two features of the same key and location.
NewFeature(key, l, qfs) == [Key |-> key, Location |-> l, Qualifiers |-> qfs]

\* ByLocation.Less on the features a = ff[i] and b = ff[j].
ByLocationLess(a, b) ==
    IF a.Key = "source" /\ b.Key # "source" THEN LessValue(TRUE)
    ELSE IF b.Key = "source" /\ a.Key # "source" THEN LessValue(FALSE)
    ELSE LocationLess(a.Location, b.Location)

\* FeatureList.Insert with the 0-based position i.
Insert(ffl, i, f) == SubSeq(ffl, 1, i) \o <<f>> \o SubSeq(ffl, i + 1, Len(ffl))

\* Mutant of sourceRun: the leading source features are not skipped.
sourceRunNone(ffl, n) == n

RECURSIVE sourceRun(_, _)
\* The loop at the head of Add: the first 0-based index n, from the given
\* one on, that is past the list or holds a non-source feature.
sourceRun(ffl, n) ==
    IF n < Len(ffl) /\ ffl[n + 1].Key = "source" THEN sourceRun(ffl, n + 1) ELSE n

\* Mutant of addPredicate: the arguments of LocationLess are swapped.
addPredicateSwapped(ffl, n, f, i) == LocationLess(ffl[n + i + 1].Location, f.Location)

\* Mutant of addPredicate: true from the first feature that is not smaller.
addPredicateNotSmaller(ffl, n, f, i) ==
    LET r == LocationLess(ffl[n + i + 1].Location, f.Location)
    IN  IF r.panic THEN r ELSE LessValue(~r.v)

\* The closure Add hands to sort.Search, at the 0-based index i.
addPredicate(ffl, n, f, i) == LocationLess(f.Location, ffl[n + i + 1].Location)

RECURSIVE Search(_, _, _, _, _)
\* sort.Search(len(ff[n:]), closure): the binary search loop on [i, j).
Search(ffl, n, f, i, j) ==
    IF i < j THEN
        LET h == (i + j) \div 2
            r == addPredicate(ffl, n, f, h)
        IN  IF r.panic THEN [panic |-> TRUE, i |-> 0]
            ELSE IF ~r.v THEN Search(ffl, n, f, h + 1, j)
            ELSE Search(ffl, n, f, i, h)
    ELSE [panic |-> FALSE, i |-> i]

\* FeatureList.Add: the list after the call, or a panic that leaves it alone.
Add(ffl, f) ==
    LET n == sourceRun(ffl, 0)
    IN  IF f.Key = "source" THEN [panic |-> FALSE, ff |-> Insert(ffl, n, f)]
        ELSE LET s == Search(ffl, n, f, 0, Len(ffl) - n)
             IN  IF s.panic THEN [panic |-> TRUE, ff |-> ffl]
                 ELSE [panic |-> FALSE, ff |-> Insert(ffl, n + s.i, f)]

\* ------------------------------------------------------------------ Shift
\* Mutant of shiftRange: a failed deletion leaves the shifted c, d behind.
shiftRangeKeepsShifted(a, b, i, n) ==
    IF n > 0 THEN
        [a |-> IF i <= a THEN a + n ELSE a,
         b |-> IF i <= b THEN b + n ELSE b,
         ok |-> TRUE]
    ELSE IF n < 0 THEN
        LET c == IF i - n <= a THEN a + n ELSE a
            d == IF i - n <= b THEN b + n ELSE b
        IN  [a |-> c, b |-> d, ok |-> c < d - 1]
    ELSE [a |-> a, b |-> b, ok |-> TRUE]

\* Mutant of shiftRange: an insertion exactly at the start does not move it.
shiftRangeStrictInsert(a, b, i, n) ==
    IF n > 0 THEN
        [a |-> IF i < a THEN a + n ELSE a,
         b |-> IF i <= b THEN b + n ELSE b,
         ok |-> TRUE]
    ELSE IF n < 0 THEN
        LET c == IF i - n <= a THEN a + n ELSE a
            d == IF i - n <= b THEN b + n ELSE b
        IN  IF c < d - 1 THEN [a |-> c, b |-> d, ok |-> TRUE]
            ELSE [a |-> a, b |-> b, ok |-> FALSE]
    ELSE [a |-> a, b |-> b, ok |-> TRUE]

\* Mutant of shiftRange: a deletion ending exactly at a coordinate does not
\* move it.
shiftRangeStrictDelete(a, b, i, n) ==
    IF n > 0 THEN
        [a |-> IF i <= a THEN a + n ELSE a,
         b |-> IF i <= b THEN b + n ELSE b,
         ok |-> TRUE]
    ELSE IF n < 0 THEN
        LET c == IF i - n < a THEN a + n ELSE a
            d == IF i - n < b THEN b + n ELSE b
        IN  IF c < d - 1 THEN [a |-> c, b |-> d, ok |-> TRUE]
            ELSE [a |-> a, b |-> b, ok |-> FALSE]
    ELSE [a |-> a, b |-> b, ok |-> TRUE]

\* shiftRange: the new (a, b) and whether the span is still valid.
shiftRange(a, b, i, n) ==
    IF n > 0 THEN
        [a |-> IF i <= a THEN a + n ELSE a,
         b |-> IF i <= b THEN b + n ELSE b,
         ok |-> TRUE]
    ELSE IF n < 0 THEN
        LET c == IF i - n <= a THEN a + n ELSE a
            d == IF i - n <= b THEN b + n ELSE b
        IN  IF c < d - 1 THEN [a |-> c, b |-> d, ok |-> TRUE]
            ELSE [a |-> a, b |-> b, ok |-> FALSE]
    ELSE [a |-> a, b |-> b, ok |-> TRUE]

\* Mutant of PointLocation.Shift: a point in the deleted interval is moved.
PointShiftNoDeletionCheck(l, offset, amount) ==
    IF amount = 0 \/ l.Position < offset THEN [loc |-> l, ok |-> TRUE]
    ELSE [loc |-> [l EXCEPT !.Position = l.Position + amount], ok |-> TRUE]

\* A Shift call returns the location as the call leaves it and the bool.
PointShift(l, offset, amount) ==
    IF amount = 0 \/ l.Position < offset THEN [loc |-> l, ok |-> TRUE]
    ELSE IF amount < 0 /\ l.Position < offset - amount THEN [loc |-> l, ok |-> FALSE]
    ELSE [loc |-> [l EXCEPT !.Position = l.Position + amount], ok |-> TRUE]

\* RangeLocation.Shift, AmbiguousLocation.Shift and BetweenLocation.Shift
\* share one body: Start, End and ok are assigned from shiftRange.
SpanShift(l, offset, amount) ==
    LET r == shiftRange(l.Start, l.End, offset, amount)
    IN  [loc |-> [l EXCEPT !.Start = r.a, !.End = r.b], ok |-> r.ok]

RECURSIVE Shift(_, _, _)
RECURSIVE ShiftEach(_, _, _)
RECURSIVE ShiftEachShortCircuit(_, _, _)
\* The mutant of ShiftEach: stop at the first child whose Shift fails.
ShiftEachShortCircuit(locs, pos, n) ==
    IF locs = <<>> THEN [Locations |-> <<>>, ok |-> TRUE]
    ELSE LET h == Shift(Head(locs), pos, n)
         IN  IF ~h.ok THEN [Locations |-> <<h.loc>> \o Tail(locs), ok |-> FALSE]
             ELSE LET t == ShiftEachShortCircuit(Tail(locs), pos, n)
                  IN  [Locations |-> <<h.loc>> \o t.Locations, ok |-> t.ok]

\* The loop of JoinLocation.Shift and OrderLocation.Shift: every child is
\* shifted, and ok is cleared by each child that returns false.
ShiftEach(locs, pos, n) ==
    IF locs = <<>> THEN [Locations |-> <<>>, ok |-> TRUE]
    ELSE LET h == Shift(Head(locs), pos, n)
             t == ShiftEach(Tail(locs), pos, n)
         IN  [Locations |-> <<h.loc>> \o t.Locations, ok |-> h.ok /\ t.ok]

ComplementShift(l, offset, amount) ==
    LET r == Shift(l.Location, offset, amount)
    IN  [loc |-> [l EXCEPT !.Location = r.loc], ok |-> r.ok]

ListShift(l, pos, n) ==
    LET r == ShiftEach(l.Locations, pos, n)
    IN  [loc |-> [l EXCEPT !.Locations = r.Locations], ok |-> r.ok]

\* Dispatch of the Location interface's Shift method.
Shift(l, offset, amount) ==
    CASE l.kind = "Point" -> PointShift(l, offset, amount)
      [] IsSpan(l) -> SpanShift(l, offset, amount)
      [] l.kind = "Complement" -> ComplementShift(l, offset, amount)
      [] IsList(l) -> ListShift(l, offset, amount)

\* ------------------------------------------------------- feature formatter
\* The qualifier names, in ascending alphabetical order.
QualifierNames == <<"gene", "note", "product", "translation">>

\* The place of a name in the alphabetical order.
NameRank(name) == CHOOSE k \in 1..Len(QualifierNames) : QualifierNames[k] = name

\* qfs.Add(name, value): the value is appended to the values of the name.
ValuesAdd(qfs, name, value) ==
    IF name \in DOMAIN qfs THEN [qfs EXCEPT ![name] = Append(@, value)]
    ELSE qfs @@ (name :> <<value>>)

\* The order map after a qualifier line: a name other than `translation`
\* that is not yet recorded gets the index len(order).
OrderAdd(order, name) ==
    IF name # "translation" /\ name \notin DOMAIN order
    THEN order @@ (name :> Cardinality(DOMAIN order))
    ELSE order

RECURSIVE ParseQualifiers(_, _, _, _)
\* The loop of FeatureListParser over the qualifier lines src, from line k on;
\* the value of line k is the number k.
ParseQualifiers(src, k, qfs, order) ==
    IF k > Len(src) THEN [Qualifiers |-> qfs, order |-> order]
    ELSE ParseQualifiers(src, k + 1, ValuesAdd(qfs, src[k], k), OrderAdd(order, src[k]))

\* The Feature FeatureListParser builds from a key line and qualifier lines.
ParsedFeature(key, l, src) ==
    LET r == ParseQualifiers(src, 1, <<>>, <<>>)
    IN  [Key |-> key, Location |-> l, Qualifiers |-> r.Qualifiers, order |-> r.order]

\* The first loop of FeatureFormatter.String: the slice `ordered`.
OrderedNames(f) ==
    [i \in 1..Cardinality(DOMAIN f.order) |->
        IF \E name \in DOMAIN f.Qualifiers : name \in DOMAIN f.order /\ f.order[name] = i - 1
        THEN CHOOSE name \in DOMAIN f.Qualifiers :
                name \in DOMAIN f.order /\ f.order[name] = i - 1
        ELSE ""]

\* The first loop of FeatureFormatter.String: the names of `remains`.
RemainingNames(f) ==
    {name \in DOMAIN f.Qualifiers : name \notin DOMAIN f.order /\ name # "translation"}

\* The first loop of FeatureFormatter.String: hasTranslate.
HasTranslate(f) ==
    "translation" \in DOMAIN f.Qualifiers /\ "translation" \notin DOMAIN f.order

RECURSIVE SortStrings(_)
\* sort.Strings(remains)
SortStrings(names) ==
    IF names = {} THEN <<>>
    ELSE LET first == CHOOSE n \in names : \A m \in names : NameRank(n) <= NameRank(m)
         IN  <<first>> \o SortStrings(names \ {first})

\* append(ordered[:i], ordered[i+1:]...) on the array arr that backs a slice
\* of length n: the elements after index i move one place down.
RemoveAt(arr, n, i) ==
    [k \in 1..Len(arr) |-> IF k > i /\ k < n THEN arr[k + 1] ELSE arr[k]]

RECURSIVE RemoveEmpty(_, _, _)
\* The loop `for i, name := range ordered` that removes the empty names. The
\* range runs over the indices of the slice as it was before the loop and
\* reads the array arr that backs it; n is the length the slice has now.
\* ordered[i+1:] panics when i+1 exceeds that length.
RemoveEmpty(arr, n, i) ==
    IF i = Len(arr) THEN [panic |-> FALSE, names |-> SubSeq(arr, 1, n)]
    ELSE IF arr[i + 1] = "" THEN
        IF i + 1 > n THEN [panic |-> TRUE, names |-> <<>>]
        ELSE RemoveEmpty(RemoveAt(arr, n, i), n - 1, i + 1)
    ELSE RemoveEmpty(arr, n, i + 1)

\* names = append(ordered, remains...), and `translation` after them.
FormatNames(f, ordered) ==
    ordered \o SortStrings(RemainingNames(f))
        \o (IF HasTranslate(f) THEN <<"translation">> ELSE <<>>)

\* The values of a name: ff.Feature.Qualifiers[name], nil for a missing name.
ValuesOf(f, name) == IF name \in DOMAIN f.Qualifiers THEN f.Qualifiers[name] ELSE <<>>

\* The qualifier lines of one name, one <<name, value>> per value.
QualifierLines(name, values) == [k \in 1..Len(values) |-> <<name, values[k]>>]

RECURSIVE FormatLines(_, _, _)
\* The last loop of FeatureFormatter.String, from the k-th name on.
FormatLines(f, names, k) ==
    IF k > Len(names) THEN <<>>
    ELSE QualifierLines(names[k], ValuesOf(f, names[k])) \o FormatLines(f, names, k + 1)

\* FeatureFormatter.String once the empty names are removed.
FormatWith(f, r) ==
    IF r.panic THEN [panic |-> TRUE, head |-> <<>>, lines |-> <<>>]
    ELSE [panic |-> FALSE,
          head |-> <<f.Key, String(f.Location)>>,
          lines |-> FormatLines(f, FormatNames(f, r.names), 1)]

\* FeatureFormatter.String: the key line (key and location) and the
\* qualifier lines, or a panic.
FeatureString(f) ==
    FormatWith(f, RemoveEmpty(OrderedNames(f), Cardinality(DOMAIN f.order), 0))

\* ------------------------------------------------------ command line parser
\* A string is the sequence of its bytes. The bytes of the names and
\* arguments, in ascending byte order.
ByteOrder ==
    <<"-", "0", "1", "2", "3", "4", "5", "6", "7", "8", "9", "=", "A", "B", "C", "D",
      "E", "F", "G", "H", "I", "J", "K", "L", "M", "N", "O", "P", "Q", "R", "S", "T",
      "U", "V", "W", "X", "Y", "Z", "a", "b", "c", "d", "e", "f", "g", "h", "i", "j",
      "k", "l", "m", "n", "o", "p", "q", "r", "s", "t", "u", "v", "w", "x", "y", "z">>

ByteRank(c) == CHOOSE k \in 1..Len(ByteOrder) : ByteOrder[k] = c

RECURSIVE StringLess(_, _)
\* a < b for Go strings: byte by byte.
StringLess(a, b) ==
    IF b = <<>> THEN FALSE
    ELSE IF a = <<>> THEN TRUE
    ELSE IF Head(a) # Head(b) THEN ByteRank(Head(a)) < ByteRank(Head(b))
    ELSE StringLess(Tail(a), Tail(b))

\* The short alias 0: no alias.
NoShort == "NUL"

\* NewParser
NewParser ==
    [values |-> <<>>, switches |-> <<>>, aliases |-> <<>>, extras |-> <<>>,
     mandatory |-> <<>>, optional |-> <<>>]

\* m[k] = v on a Go map.
MapSet(m, k, v) == [x \in (DOMAIN m) \cup {k} |-> IF x = k THEN v ELSE m[x]]

\* parser.aliases after a registration with the alias short.
SetAlias(aliases, short, long) ==
    IF short # NoShort THEN MapSet(aliases, short, long) ELSE aliases

\* NewBoolValue, NewIntValue, NewStringValue and NewStringsValue: a Value
\* is its type and what it holds.
NewBoolValue(v) == [type |-> "Bool", v |-> v]

NewIntValue(v) == [type |-> "Int", v |-> v]

NewStringValue(v) == [type |-> "String", v |-> v]

NewStringsValue(v) == [type |-> "Strings", v |-> v]

\* Parser.Register, called by Bool, Int, String and Strings.
Register(parser, short, long, value) ==
    [parser EXCEPT !.values = MapSet(parser.values, long, value),
                   !.aliases = SetAlias(parser.aliases, short, long)]

\* Parser.Switch
Switch(parser, short, long) ==
    [parser EXCEPT !.switches = MapSet(parser.switches, long, FALSE),
                   !.aliases = SetAlias(parser.aliases, short, long)]

\* Parser.findAlias: the alias of a long name, or 0.
findAlias(parser, long) ==
    IF \E k \in DOMAIN parser.aliases : parser.aliases[k] = long
    THEN CHOOSE k \in DOMAIN parser.aliases : parser.aliases[k] = long
    ELSE NoShort

\* Parser.names: the long names that have no alias.
unaliased(parser) ==
    {k \in (DOMAIN parser.values) \cup (DOMAIN parser.switches) :
        findAlias(parser, k) = NoShort}

RECURSIVE SortNames(_)
\* sort.Strings(names)
SortNames(names) ==
    IF names = {} THEN <<>>
    ELSE LET first == CHOOSE n \in names : \A m \in names : ~StringLess(m, n)
         IN  <<first>> \o SortNames(names \ {first})

\* The bytes Parser.names runs over.
keys ==
    <<"0", "1", "2", "3", "4", "5", "6", "7", "8", "9", "A", "a", "B", "b", "C", "c",
      "D", "d", "E", "e", "F", "f", "G", "g", "H", "h", "I", "i", "J", "j", "K", "k",
      "L", "l", "M", "m", "N", "n", "O", "o", "P", "p", "Q", "q", "R", "r", "S", "s",
      "T", "t", "U", "u", "V", "v", "W", "w", "X", "x", "Y", "y", "Z", "z">>

RECURSIVE flushNames(_, _, _)
\* The inner loop of Parser.names: the names from index i on whose first
\* byte is short; returns the names taken and the index reached.
flushNames(names, i, short) ==
    IF i < Len(names) /\ Head(names[i + 1]) = short
    THEN LET r == flushNames(names, i + 1, short)
         IN  [taken |-> <<names[i + 1]>> \o r.taken, i |-> r.i]
    ELSE [taken |-> <<>>, i |-> i]

RECURSIVE namesLoop(_, _, _, _)

\* The outer loop of Parser.names, from the k-th key on: the long name of
\* the key's alias, or else the names without an alias that start with it.
namesLoop(parser, names, k, i) ==
    IF k > Len(keys) THEN <<>>
    ELSE IF keys[k] \in DOMAIN parser.aliases
    THEN <<parser.aliases[keys[k]]>> \o namesLoop(parser, names, k + 1, i)
    ELSE LET r == flushNames(names, i, keys[k])
         IN  r.taken \o namesLoop(parser, names, k + 1, r.i)

\* Parser.names
names(parser) == namesLoop(parser, SortNames(unaliased(parser)), 1, 0)

\* Parser.argDesc: the row of a long name, with the alias it is shown with.
argDesc(parser, long) == [short |-> findAlias(parser, long), long |-> long]

\* Parser.Help: the rows of the registered arguments, after the usage line
\* and the rows of --help and --version.
Help(parser) ==
    LET ns == names(parser) IN [k \in 1..Len(ns) |-> argDesc(parser, ns[k])]

\* Parser.Mandatory and Parser.Optional: a positional is its name and a
\* string value, empty until Parse fills it.
Mandatory(parser, name) ==
    [parser EXCEPT !.mandatory = Append(@, [Name |-> name, Value |-> NewStringValue(<<>>)])]

Optional(parser, name) ==
    [parser EXCEPT !.optional = Append(@, [Name |-> name, Value |-> NewStringValue(<<>>)])]

\* strings.HasPrefix
HasPrefix(s, prefix) ==
    Len(s) >= Len(prefix) /\ SubSeq(s, 1, Len(prefix)) = prefix

\* strings.TrimPrefix, for a prefix the string has.
TrimPrefix(s, prefix) == SubSeq(s, Len(prefix) + 1, Len(s))

\* strings.Contains(name, "=")
ContainsEquals(s) == \E k \in 1..Len(s) : s[k] = "="

\* strings.SplitN(name, "=", 2)
SplitEquals(s) ==
    LET k == CHOOSE j \in 1..Len(s) : s[j] = "=" /\ \A h \in 1..(j - 1) : s[h] # "="
    IN  <<SubSeq(s, 1, k - 1), SubSeq(s, k + 1, Len(s))>>

\* The texts strconv.ParseBool takes for true and for false.
TrueTexts == {<<"1">>, <<"t">>, <<"T">>, <<"T", "R", "U", "E">>, <<"t", "r", "u", "e">>, <<"T", "r", "u", "e">>}

FalseTexts == {<<"0">>, <<"f">>, <<"F">>, <<"F", "A", "L", "S", "E">>, <<"f", "a", "l", "s", "e">>, <<"F", "a", "l", "s", "e">>}

\* The text is a decimal integer, with or without a sign.
IsInteger(s) ==
    LET digits == IF s # <<>> /\ Head(s) \in {"+", "-"} THEN Tail(s) ELSE s
    IN  digits # <<>> /\ \A k \in 1..Len(digits) : IsDigit(digits[k])

\* strconv.Atoi, for a text that is an integer.
AtoiSigned(s) ==
    IF Head(s) = "-" THEN 0 - Atoi(Tail(s), 0, Len(s) - 1)
    ELSE IF Head(s) = "+" THEN Atoi(Tail(s), 0, Len(s) - 1)
    ELSE Atoi(s, 0, Len(s))

\* Value.Set: a string is stored, a list of strings grows by one, an integer
\* or a boolean is parsed and a text that is neither is an error.
Set(value, s) ==
    CASE value.type = "String" -> [ok |-> TRUE, value |-> NewStringValue(s)]
      [] value.type = "Strings" -> [ok |-> TRUE, value |-> NewStringsValue(Append(value.v, s))]
      [] value.type = "Int" ->
            IF IsInteger(s) THEN [ok |-> TRUE, value |-> NewIntValue(AtoiSigned(s))]
            ELSE [ok |-> FALSE, value |-> value]
      [] value.type = "Bool" ->
            IF s \in TrueTexts \cup FalseTexts
            THEN [ok |-> TRUE, value |-> NewBoolValue(s \in TrueTexts)]
            ELSE [ok |-> FALSE, value |-> value]

\* Parser.getLongName: the alias is registered.
getLongName(parser, short) == short \in DOMAIN parser.aliases

\* The outcome of setting a flag: the parser after it, and whether it failed.
Done(parser) == [parser |-> parser, err |-> FALSE]

Refused(parser) == [parser |-> parser, err |-> TRUE]

\* Parser.trySetLong, given what Set returned.
SetLong(parser, name, r) ==
    IF r.ok THEN Done([parser EXCEPT !.values[name] = r.value]) ELSE Refused(parser)

\* Parser.trySetLong
trySetLong(parser, name, value) ==
    IF name \in DOMAIN parser.values
    THEN SetLong(parser, name, Set(parser.values[name], value))
    ELSE Refused(parser)

\* Parser.trySetBoolTrue
trySetBoolTrue(parser, name) ==
    IF name \in DOMAIN parser.values
    THEN IF parser.values[name].type = "Bool"
         THEN Done([parser EXCEPT !.values[name] = NewBoolValue(TRUE)])
         ELSE Refused(parser)
    ELSE IF name \in DOMAIN parser.switches
    THEN Done([parser EXCEPT !.switches[name] = TRUE])
    ELSE Refused(parser)

\* What handleLong, handleShort and parseNext return: the arguments left
\* and the error, or a panic.
Left(parser, args) == [parser |-> parser, args |-> args, err |-> FALSE, panic |-> FALSE]

Failed(parser) == [parser |-> parser, args |-> <<>>, err |-> TRUE, panic |-> FALSE]

Panicked(parser) == [parser |-> parser, args |-> <<>>, err |-> FALSE, panic |-> TRUE]

\* return args, err: the arguments are returned with the error.
LeftWith(r, args) == IF r.err THEN Failed(r.parser) ELSE Left(r.parser, args)

\* handleLong after the value was offered to the flag.
LongValue(parser, name, args, r) ==
    IF ~r.err THEN Left(r.parser, Tail(args))
    ELSE LeftWith(trySetBoolTrue(parser, name), args)

\* handleLong with name=value.
LongEquals(parser, split, args) ==
    LeftWith(trySetLong(parser, split[1], split[2]), args)

\* Parser.handleLong: args[0] panics when no argument follows.
handleLong(parser, name, args) ==
    IF name = <<"h", "e", "l", "p">> \/ name = <<"v", "e", "r", "s", "i", "o", "n">> THEN Failed(parser)
    ELSE IF ContainsEquals(name) THEN LongEquals(parser, SplitEquals(name), args)
    ELSE IF args = <<>> THEN Panicked(parser)
    ELSE IF HasPrefix(Head(args), <<"-">>)
    THEN LeftWith(trySetBoolTrue(parser, name), args)
    ELSE LongValue(parser, name, args, trySetLong(parser, name, Head(args)))

RECURSIVE handleShort(_, _, _, _)

\* handleShort after trySetBoolTrue on the i-th byte.
ShortSwitch(r, bytes, i, args) ==
    IF r.err THEN Failed(r.parser) ELSE handleShort(r.parser, bytes, i + 1, args)

\* handleShort after the value was offered to the last byte's flag.
ShortValue(parser, name, bytes, i, args, r) ==
    IF ~r.err THEN Left(r.parser, Tail(args))
    ELSE ShortSwitch(trySetBoolTrue(parser, name), bytes, i, args)

\* handleShort on the flag of the i-th byte.
ShortName(parser, name, bytes, i, args) ==
    IF i = Len(bytes) /\ Len(args) > 0
    THEN ShortValue(parser, name, bytes, i, args, trySetLong(parser, name, Head(args)))
    ELSE ShortSwitch(trySetBoolTrue(parser, name), bytes, i, args)

\* Parser.handleShort, from the i-th byte on.
handleShort(parser, bytes, i, args) ==
    IF i > Len(bytes) THEN Left(parser, args)
    ELSE IF bytes[i] = "h" THEN Failed(parser)
    ELSE IF ~getLongName(parser, bytes[i]) THEN Failed(parser)
    ELSE ShortName(parser, parser.aliases[bytes[i]], bytes, i, args)

\* Parser.parseNext, no command being registered.
parseNext(parser, args) ==
    IF HasPrefix(Head(args), <<"-", "-">>)
    THEN handleLong(parser, TrimPrefix(Head(args), <<"-", "-">>), Tail(args))
    ELSE IF HasPrefix(Head(args), <<"-">>)
    THEN handleShort(parser, TrimPrefix(Head(args), <<"-">>), 1, Tail(args))
    ELSE Left([parser EXCEPT !.extras = Append(@, Head(args))], Tail(args))

\* What Parse returns: no error, a flag error, the missing mandatory
\* argument, the surplus arguments, or a panic.
Parsed(parser) ==
    [parser |-> parser, err |-> "none", name |-> "", surplus |-> <<>>, panic |-> FALSE]

FlagError(parser) == [Parsed(parser) EXCEPT !.err = "flag"]

MissingMandatory(parser, name) == [Parsed(parser) EXCEPT !.err = "missing", !.name = name]

TooMany(parser) == [Parsed(parser) EXCEPT !.err = "surplus", !.surplus = parser.extras]

ParsePanic(parser) == [Parsed(parser) EXCEPT !.panic = TRUE]

\* p.Value.Set(parser.extras[0]); parser.extras = parser.extras[1:]
TakeMandatory(parser, j) ==
    [parser EXCEPT !.mandatory[j].Value = Set(@, Head(parser.extras)).value,
                   !.extras = Tail(@)]

TakeOptional(parser, j) ==
    [parser EXCEPT !.optional[j].Value = Set(@, Head(parser.extras)).value,
                   !.extras = Tail(@)]

\* The end of Parse: arguments left over are too many.
ParseRest(parser) == IF parser.extras = <<>> THEN Parsed(parser) ELSE TooMany(parser)

RECURSIVE ParseOptional(_, _)
\* The loop of Parse over the optional positionals, from the j-th on.
ParseOptional(parser, j) ==
    IF j > Len(parser.optional) THEN ParseRest(parser)
    ELSE IF parser.extras = <<>> THEN Parsed(parser)
    ELSE ParseOptional(TakeOptional(parser, j), j + 1)

RECURSIVE ParseMandatory(_, _)
\* The loop of Parse over the mandatory positionals, from the j-th on.
ParseMandatory(parser, j) ==
    IF j > Len(parser.mandatory) THEN ParseOptional(parser, 1)
    ELSE IF parser.extras = <<>> THEN MissingMandatory(parser, parser.mandatory[j].Name)
    ELSE ParseMandatory(TakeMandatory(parser, j), j + 1)

RECURSIVE ParseArgs(_, _)

\* The loop of Parse over the arguments, after a call of parseNext.
ParseTail(r) ==
    IF r.panic THEN ParsePanic(r.parser)
    ELSE IF r.err THEN FlagError(r.parser)
    ELSE ParseArgs(r.parser, r.args)

\* The loop of Parse over the arguments.
ParseArgs(parser, args) ==
    IF args = <<>> THEN ParseMandatory(parser, 1) ELSE ParseTail(parseNext(parser, args))

\* Parser.Parse
ParserParse(parser, args) == ParseArgs(parser, args)

\* ------------------------------------------------------------- sequence edit
\* A Sequence: its bytes and its feature table.
NewSequence(bytes, features) == [bytes |-> bytes, features |-> features]

\* The feature f after a Shift call that returned r, or nothing when the
\* call returned false.
ShiftedFeature(f, r) == IF r.ok THEN <<[f EXCEPT !.Location = r.loc]>> ELSE <<>>

RECURSIVE ShiftFeatures(_, _, _)
\* Every feature location undergoes Shift(offset, amount); a feature whose
\* location is invalidated is dropped.
ShiftFeatures(ffl, offset, amount) ==
    IF ffl = <<>> THEN <<>>
    ELSE ShiftedFeature(Head(ffl), Shift(Head(ffl).Location, offset, amount))
            \o ShiftFeatures(Tail(ffl), offset, amount)

\* Delete(seq, i, n): the bytes seq[0..i] ++ seq[i+n..]; each feature location
\* undergoes Shift(i+n, -n).
Delete(seq, i, n) ==
    NewSequence(SubSeq(seq.bytes, 1, i) \o SubSeq(seq.bytes, i + n + 1, Len(seq.bytes)),
                ShiftFeatures(seq.features, i + n, 0 - n))

\* ---------------------------------------------------------------- selectors
\* A FeatureSelector is a function of a feature; it is kept as the
\* expression that built it.
Key(key) == [op |-> "Key", key |-> key]

Qualifier(name) == [op |-> "Qualifier", name |-> name]

Not(selector) == [op |-> "Not", arg |-> selector]

And(lhs, rhs) == [op |-> "And", lhs |-> lhs, rhs |-> rhs]

Or(lhs, rhs) == [op |-> "Or", lhs |-> lhs, rhs |-> rhs]

RECURSIVE Matches(_, _)
\* sel(f)
Matches(selector, f) ==
    CASE selector.op = "Key" -> f.Key = selector.key
      [] selector.op = "Qualifier" -> selector.name \in DOMAIN f.Qualifiers
      [] selector.op = "Not" -> ~Matches(selector.arg, f)
      [] selector.op = "And" -> Matches(selector.lhs, f) /\ Matches(selector.rhs, f)
      [] selector.op = "Or" -> Matches(selector.lhs, f) \/ Matches(selector.rhs, f)

\* The position of the first '/' of a selector text, or 0.
SlashAt(query) ==
    IF \E k \in 1..Len(query) : query[k] = "/"
    THEN CHOOSE k \in 1..Len(query) : query[k] = "/" /\ \A h \in 1..(k - 1) : query[h] # "/"
    ELSE 0

\* The string of a text of one-byte strings that names a key or a qualifier.
NameOf(query) ==
    CASE query = <<"s", "o", "u", "r", "c", "e">> -> "source"
      [] query = <<"g", "e", "n", "e">> -> "gene"
      [] query = <<"n", "o", "t", "e">> -> "note"
      [] OTHER -> "other"

\* Selector(text), for the syntax key[/qualifier]: the features of the key
\* that, when a qualifier is named, have it.
Selector(query) ==
    IF SlashAt(query) = 0 THEN Key(NameOf(query))
    ELSE And(Key(NameOf(SubSeq(query, 1, SlashAt(query) - 1))),
             Qualifier(NameOf(SubSeq(query, SlashAt(query) + 1, Len(query)))))

RECURSIVE SelectReversed(_, _)
\* Mutant of Select: the selected features come out in reverse order.
SelectReversed(features, selector) ==
    IF features = <<>> THEN <<>>
    ELSE SelectReversed(Tail(features), selector)
            \o (IF Matches(selector, Head(features)) THEN <<Head(features)>> ELSE <<>>)

RECURSIVE Select(_, _)
\* FeatureList.Select: the features the selector holds for, in their order.
Select(features, selector) ==
    IF features = <<>> THEN <<>>
    ELSE (IF Matches(selector, Head(features)) THEN <<Head(features)>> ELSE <<>>)
            \o Select(Tail(features), selector)

\* FeatureList.Filter
Filter(features, selector) == Select(features, selector)

\* The filter featureSelect builds from the selector and the -v switch.
SelectFilter(query, invert) ==
    Or(Key("source"), IF invert THEN Not(Selector(query)) ELSE Selector(query))

\* The features featureSelect writes for a record.
SelectFeatures(features, query, invert) == Filter(features, SelectFilter(query, invert))

\* The features featureClear writes for a record.
ClearFeatures(features) == Filter(features, Key("source"))

\* ------------------------------------------------------------------ GenBank
\* The bases of one group of an ORIGIN line, and the groups of one line.
GroupLen == 10

GroupsPerLine == 10

LineBases == GroupLen * GroupsPerLine

\* The width of the position column of an ORIGIN line.
PositionWidth == 9

Least(i, j) == IF i <= j THEN i ELSE j

Spaces(n) == [k \in 1..n |-> " "]

\* s left-justified in w columns.
PadRight(s, w) == s \o Spaces(w - Len(s))

\* s right-justified in w columns.
PadLeft(s, w) == Spaces(w - Len(s)) \o s

RECURSIVE TrimRight(_)
TrimRight(s) ==
    IF s # <<>> /\ s[Len(s)] = " " THEN TrimRight(SubSeq(s, 1, Len(s) - 1)) ELSE s

RECURSIVE TrimLeft(_)
TrimLeft(s) == IF s # <<>> /\ s[1] = " " THEN TrimLeft(Tail(s)) ELSE s

\* A field value: not empty, no space in it.
IsWord(s) == s # <<>> /\ \A k \in 1..Len(s) : s[k] # " "

IsLower(c) == c \in {"a", "c", "g", "t", "n"}

KeywordLocus == <<"L", "O", "C", "U", "S">>

KeywordDefinition == <<"D", "E", "F", "I", "N", "I", "T", "I", "O", "N">>

KeywordOrigin == <<"O", "R", "I", "G", "I", "N">>

Terminator == <<"/", "/">>

Topologies == {<<"l", "i", "n", "e", "a", "r">>, <<"c", "i", "r", "c", "u", "l", "a", "r">>}

\* A GenBank record: the LOCUS fields, the DEFINITION (empty when the
\* record has none) and the sequence bytes.
GenBank(name, molecule, topology, division, date, definition, bytes) ==
    [name |-> name, molecule |-> molecule, topology |-> topology, division |-> division,
     date |-> date, definition |-> definition, bytes |-> bytes]

NoGenBank == GenBank(<<>>, <<>>, <<>>, <<>>, <<>>, <<>>, <<>>)

\* The molecule columns: three for the strandedness, six for the type.
MoleculeField(molecule) ==
    IF Len(molecule) > 3 /\ molecule[3] = "-" THEN PadRight(molecule, 9)
    ELSE Spaces(3) \o PadRight(molecule, 6)

\* The LOCUS line, fixed-column.
FormatLocus(g) ==
    PadRight(KeywordLocus, 12) \o PadRight(g.name, 16) \o <<" ">>
        \o PadLeft(Itoa(Len(g.bytes)), 11) \o <<" ", "b", "p", " ">>
        \o MoleculeField(g.molecule) \o Spaces(2) \o PadRight(g.topology, 8) \o <<" ">>
        \o g.division \o <<" ">> \o g.date

RECURSIVE FormatGroups(_)
\* The bases of one ORIGIN line in groups, each after one space.
FormatGroups(bases) ==
    IF bases = <<>> THEN <<>>
    ELSE <<" ">> \o SubSeq(bases, 1, Least(GroupLen, Len(bases)))
            \o FormatGroups(SubSeq(bases, GroupLen + 1, Len(bases)))

RECURSIVE FormatOrigin(_, _)
\* The lines of the ORIGIN block from the base after i on.
FormatOrigin(bytes, i) ==
    IF i >= Len(bytes) THEN <<>>
    ELSE <<PadLeft(Itoa(i + 1), PositionWidth)
                \o FormatGroups(SubSeq(bytes, i + 1, Least(i + LineBases, Len(bytes))))>>
            \o FormatOrigin(bytes, i + LineBases)

\* The lines of a record.
FormatRecord(g) ==
    <<FormatLocus(g)>>
        \o (IF g.definition = <<>> THEN <<>>
            ELSE <<PadRight(KeywordDefinition, 12) \o g.definition>>)
        \o <<PadRight(KeywordOrigin, 12)>>
        \o FormatOrigin(g.bytes, 0)
        \o <<Terminator>>

RECURSIVE JoinLines(_)
\* Every line followed by a newline.
JoinLines(ls) == IF ls = <<>> THEN <<>> ELSE Head(ls) \o <<"\n">> \o JoinLines(Tail(ls))

\* What WriteTo returns, and what it wrote.
Written(out, failed) == [n |-> Len(out), err |-> failed, out |-> out]

\* GenBankFormatter.WriteTo: a record of length 0 is an error and nothing
\* is written.
WriteTo(g) ==
    IF Len(g.bytes) = 0 THEN Written(<<>>, TRUE)
    ELSE Written(JoinLines(FormatRecord(g)), FALSE)

\* The index of the first newline of a text that has one.
FirstNewline(buf) ==
    CHOOSE k \in 1..Len(buf) : buf[k] = "\n" /\ \A h \in 1..(k - 1) : buf[h] # "\n"

RECURSIVE SplitLines(_)
\* The text cut at its newlines; the last piece is what follows the last
\* newline.
SplitLines(buf) ==
    IF \A k \in 1..Len(buf) : buf[k] # "\n" THEN <<buf>>
    ELSE <<SubSeq(buf, 1, FirstNewline(buf) - 1)>>
            \o SplitLines(SubSeq(buf, FirstNewline(buf) + 1, Len(buf)))

\* The digits of a length or a position: a digit run without a leading zero.
IsCount(digits) ==
    /\ digits # <<>>
    /\ \A k \in 1..Len(digits) : IsDigit(digits[k])
    /\ digits[1] # "0"

\* The molecule of a LOCUS line: with a strandedness the nine columns,
\* without one the six columns of the type.
LocusMolecule(line) ==
    IF SubSeq(line, 45, 47) = Spaces(3) THEN TrimRight(SubSeq(line, 48, 53))
    ELSE TrimRight(SubSeq(line, 45, 53))

\* The LOCUS line has its fields in their columns.
LocusOk(line) ==
    /\ Len(line) = 79
    /\ SubSeq(line, 1, 12) = PadRight(KeywordLocus, 12)
    /\ IsWord(TrimRight(SubSeq(line, 13, 28)))
    /\ line[29] = " "
    /\ IsCount(TrimLeft(SubSeq(line, 30, 40)))
    /\ SubSeq(line, 41, 44) = <<" ", "b", "p", " ">>
    /\ SubSeq(line, 45, 47) # Spaces(3) => line[47] = "-"
    /\ IsWord(LocusMolecule(line))
    /\ SubSeq(line, 54, 55) = Spaces(2)
    /\ TrimRight(SubSeq(line, 56, 63)) \in Topologies
    /\ line[64] = " "
    /\ IsWord(SubSeq(line, 65, 67))
    /\ line[68] = " "
    /\ IsWord(SubSeq(line, 69, 79))
    /\ line[71] = "-" /\ line[75] = "-"

\* The length in bp of a LOCUS line.
LocusLength(line) ==
    Atoi(TrimLeft(SubSeq(line, 30, 40)), 0, Len(TrimLeft(SubSeq(line, 30, 40))))

\* The record of a LOCUS line, a DEFINITION and the sequence bytes.
LocusRecord(line, definition, bytes) ==
    GenBank(TrimRight(SubSeq(line, 13, 28)), LocusMolecule(line),
            TrimRight(SubSeq(line, 56, 63)), SubSeq(line, 65, 67), SubSeq(line, 69, 79),
            definition, bytes)

\* The result of the parser.
ParsedGenBank(g) == [ok |-> TRUE, gb |-> g]

ParseError == [ok |-> FALSE, gb |-> NoGenBank]

\* The column of the j-th base of an ORIGIN line.
BaseColumn(j) == PositionWidth + j + ((j - 1) \div GroupLen) + 1

\* Mutant of OriginLineOk: the position may be of any width.
OriginLineAnyWidth(line, position, want) ==
    /\ Len(line) > BaseColumn(want) - PositionWidth
    /\ IsCount(TrimLeft(SubSeq(line, 1, Len(line) - BaseColumn(want) + PositionWidth)))
    /\ \A j \in 1..want :
          /\ IsLower(line[Len(line) - BaseColumn(want) + BaseColumn(j)])
          /\ (j - 1) % GroupLen = 0 =>
                line[Len(line) - BaseColumn(want) + BaseColumn(j) - 1] = " "

\* An ORIGIN line of the shape: the position in nine columns, then want
\* bases in groups of ten lowercase letters, one space before each.
OriginLineOk(line, position, want) ==
    /\ Len(line) = BaseColumn(want)
    /\ IsCount(TrimLeft(SubSeq(line, 1, PositionWidth)))
    /\ Atoi(TrimLeft(SubSeq(line, 1, PositionWidth)), 0,
            Len(TrimLeft(SubSeq(line, 1, PositionWidth)))) = position
    /\ \A j \in 1..want :
          /\ IsLower(line[BaseColumn(j)])
          /\ (j - 1) % GroupLen = 0 => line[BaseColumn(j) - 1] = " "

\* The bases of an ORIGIN line, read from its end.
OriginBases(line, want) ==
    [j \in 1..want |-> line[Len(line) - BaseColumn(want) + BaseColumn(j)]]

RECURSIVE OriginParser(_, _, _, _, _)
\* The ORIGIN block from line k on: lines until the bases of the LOCUS
\* length are read, then the terminator and the end of the text.
OriginParser(ls, k, length, definition, bytes) ==
    IF Len(bytes) = length
    THEN IF Len(ls) = k + 1 /\ ls[k] = Terminator /\ ls[k + 1] = <<>>
         THEN ParsedGenBank(LocusRecord(ls[1], definition, bytes))
         ELSE ParseError
    ELSE IF k > Len(ls) THEN ParseError
    ELSE IF OriginLineOk(ls[k], Len(bytes) + 1, Least(length - Len(bytes), LineBases))
    THEN OriginParser(ls, k + 1, length, definition,
            bytes \o OriginBases(ls[k], Least(length - Len(bytes), LineBases)))
    ELSE ParseError

\* The DEFINITION line has a body after its twelve columns.
DefinitionOk(line) ==
    /\ Len(line) > 12
    /\ SubSeq(line, 1, 12) = PadRight(KeywordDefinition, 12)
    /\ line[13] # " " /\ line[Len(line)] # " "

\* Mutant of FieldParser: a line with an unknown keyword is skipped.
RECURSIVE FieldParserSkipping(_, _, _)
FieldParserSkipping(ls, k, definition) ==
    IF k > Len(ls) THEN ParseError
    ELSE IF HasPrefix(ls[k], KeywordDefinition)
    THEN IF definition = <<>> /\ DefinitionOk(ls[k])
         THEN FieldParserSkipping(ls, k + 1, SubSeq(ls[k], 13, Len(ls[k])))
         ELSE ParseError
    ELSE IF ls[k] = PadRight(KeywordOrigin, 12)
    THEN OriginParser(ls, k + 1, LocusLength(ls[1]), definition, <<>>)
    ELSE FieldParserSkipping(ls, k + 1, definition)

RECURSIVE FieldParser(_, _, _)
\* The fields after the LOCUS line, from line k on: a DEFINITION, once,
\* then the ORIGIN block; any other keyword is an error.
FieldParser(ls, k, definition) ==
    IF k > Len(ls) THEN ParseError
    ELSE IF HasPrefix(ls[k], KeywordDefinition)
    THEN IF definition = <<>> /\ DefinitionOk(ls[k])
         THEN FieldParser(ls, k + 1, SubSeq(ls[k], 13, Len(ls[k])))
         ELSE ParseError
    ELSE IF ls[k] = PadRight(KeywordOrigin, 12)
    THEN OriginParser(ls, k + 1, LocusLength(ls[1]), definition, <<>>)
    ELSE ParseError

\* The parser on the lines of a text.
ParseLines(ls) == IF LocusOk(ls[1]) THEN FieldParser(ls, 2, <<>>) ELSE ParseError

\* GenBankParser
GenBankParser(buf) == ParseLines(SplitLines(buf))

\* ------------------------------------------------------------- subcommands
\* The subcommands: sequenceInsert, featureAnnotate, sequenceDelete,
\* featureClear, featureSelect and sequenceLength.
Commands == {"insert", "annotate", "delete", "clear", "select", "length"}

\* The subcommands that write through a bufio.Writer.
Buffered(cmd) == cmd \in {"annotate", "clear", "select", "length"}

\* The subcommands that look at the error of w.Flush().
FlushChecked(cmd) == cmd = "length"

\* The subcommands that open a file besides their input and output.
HasSecond(cmd) == cmd \in {"insert", "annotate"}

\* The file a subcommand opens besides its input and output: the guest
\* file of insert, the feature table of annotate.
SecondFile(cmd) == IF cmd = "insert" THEN "guest" ELSE "table"

\* os.Open or os.Create succeeded on a file; closing is deferred or not.
Opened(r, file, deferred) ==
    [r EXCEPT !.open = @ \cup {file},
              !.deferred = IF deferred THEN Append(@, file) ELSE @]

\* file.Close()
Close(open, file) == open \ {file}

RECURSIVE RunDeferred(_, _)
\* The deferred calls run when the function returns, last deferred first.
RunDeferred(open, deferred) ==
    IF deferred = <<>> THEN open
    ELSE RunDeferred(Close(open, deferred[Len(deferred)]),
                     SubSeq(deferred, 1, Len(deferred) - 1))

\* return, with or without an error, or a panic leaving the function.
Return(r, exit) ==
    [r EXCEPT !.pc = "returned", !.exit = exit,
              !.open = RunDeferred(r.open, r.deferred), !.deferred = <<>>]

\* The scan loop begins; the buffered subcommands make their writer first.
StartScan(r) == [r EXCEPT !.pc = "scan", !.writer = Buffered(r.cmd)]

\* The step after the arguments: select parses its selector.
AfterParse(cmd) == IF cmd = "select" THEN "selector" ELSE "openInput"

\* The step after the input file: insert and annotate open a second file.
AfterInput(cmd) == IF HasSecond(cmd) THEN "openSecond" ELSE "createOutput"

\* After the output file insert and annotate read the second file, the
\* others scan.
AfterOutput(r) == IF HasSecond(r.cmd) THEN [r EXCEPT !.pc = "readSecond"] ELSE StartScan(r)

\* The records written for one record scanned: insert writes one for each
\* guest.
PerRecord(r) == IF r.cmd = "insert" THEN r.guests ELSE 1

\* The step the scan loop ends in: the buffered subcommands flush.
AfterScan(cmd) == IF Buffered(cmd) THEN "flushed" ELSE "scan"

\* ------------------------------------------------------------- universes
\* Universes take the set C of coordinates they are built over.
SpanPairs(C) == {p \in C \X C : p[1] < p[2]}

Points(C) == {NewPointLocation(p) : p \in C}

PlainRanges(C) == {NewRangeLocation(p[1], p[2]) : p \in SpanPairs(C)}

PartialRanges(C) ==
    {NewPartialRangeLocation(p[1], p[2], p5, p3) :
        p \in SpanPairs(C), p5 \in BOOLEAN, p3 \in BOOLEAN}

Ambiguouses(C) == {NewAmbiguousLocation(p[1], p[2]) : p \in SpanPairs(C)}

Betweens(C) == {NewBetweenLocation(p[1], p[2]) : p \in SpanPairs(C)}

Primitives(C) == Points(C) \cup PartialRanges(C) \cup Ambiguouses(C) \cup Betweens(C)

Complements(S) == {NewComplementLocation(l) : l \in S}

\* The non-empty sequences over S of length at most k.
Lists(S, k) == UNION {[1..n -> S] : n \in 1..k}

Joins(S, k) == {NewJoinLocation(ls) : ls \in Lists(S, k)}

Orders(S, k) == {NewOrderLocation(ls) : ls \in Lists(S, k)}

\* A few three-level trees: join(complement(a),order(b,c)).
Nested(S) ==
    {NewJoinLocation(<<NewComplementLocation(a), NewOrderLocation(<<b, c>>)>>) :
        a \in S, b \in S, c \in S}

\* The valid locations (every span has length >= 1) that are shifted.
ShiftLocs ==
    LET C == 0..MaxCoord
        small == Points(C) \cup PlainRanges(C)
        tiny == {NewRangeLocation(0, 1), NewRangeLocation(1, 3), NewPointLocation(2)}
    IN  Primitives(C) \cup Complements(Primitives(C))
        \cup Joins(small, 2) \cup Orders(small, 2) \cup Nested(tiny)

RECURSIVE MaxCoordOf(_)
RECURSIVE MaxCoordOfList(_)
MaxCoordOfList(locs) ==
    IF locs = <<>> THEN 0
    ELSE LET h == MaxCoordOf(Head(locs))
             t == MaxCoordOfList(Tail(locs))
         IN  IF h > t THEN h ELSE t

\* The largest coordinate stored in a location.
MaxCoordOf(l) ==
    CASE l.kind = "Point" -> l.Position
      [] IsSpan(l) -> IF l.Start > l.End THEN l.Start ELSE l.End
      [] l.kind = "Complement" -> MaxCoordOf(l.Location)
      [] IsList(l) -> MaxCoordOfList(l.Locations)

\* The locations of length >= 1 that LocationLess compares: every variant,
\* and lists with a child of length 0 (the text `2..1` parses to one).
LessLocs ==
    LET m == MaxLessCoord
        C == 0..m
        small == Points(C) \cup PlainRanges(C)
        empty == {NewRangeLocation(p, p) : p \in C}
    IN  small \cup Ambiguouses(C) \cup Betweens(C) \cup Complements(small)
        \cup Joins(small, 2)
        \cup {NewOrderLocation(<<a, b>>) : a \in empty, b \in PlainRanges(C)}
        \cup {NewOrderLocation(<<a, b>>) : a \in Points(C), b \in empty}
        \cup {NewJoinLocation(<<NewComplementLocation(a), NewPointLocation(m)>>) :
                a \in PlainRanges(C)}

\* The locations of the features that are added: a point, the ranges that
\* end at MaxFeatCoord, and a complement and a join that tie with the range
\* [0, MaxFeatCoord).
FeatureLocs ==
    LET m == MaxFeatCoord
    IN  {NewRangeLocation(s, m) : s \in 0..(m - 1)} \cup {NewPointLocation(0)}
        \cup {NewComplementLocation(NewRangeLocation(0, m))}
        \cup {NewJoinLocation(<<NewPointLocation(0), NewPointLocation(m - 1)>>)}

FeatureKeys == {"source", "gene"}

\* The coordinates of the locations that are formatted and parsed: the
\* small ones and one whose 1-based form has two digits.
ParseCoords == (0..MaxParseCoord) \cup {BigCoord}

\* The locations that are formatted and parsed back: every primitive over
\* ParseCoords, whatever the order of its Start and End, their complements,
\* the joins and orders of at most two children (of none, too), and trees of
\* three levels.
RoundTripLocs ==
    LET C == ParseCoords
        spans == C \X C
        prims == Points(C)
                 \cup {NewPartialRangeLocation(p[1], p[2], p5, p3) :
                          p \in spans, p5 \in BOOLEAN, p3 \in BOOLEAN}
                 \cup {NewAmbiguousLocation(p[1], p[2]) : p \in spans}
                 \cup {NewBetweenLocation(p[1], p[2]) : p \in spans}
        few == {NewPointLocation(BigCoord),
                NewPartialRangeLocation(0, BigCoord, TRUE, TRUE),
                NewRangeLocation(BigCoord, 1),
                NewAmbiguousLocation(1, 2),
                NewBetweenLocation(0, 1),
                NewComplementLocation(NewPartialRangeLocation(1, 2, FALSE, TRUE)),
                NewJoinLocation(<<>>),
                NewOrderLocation(<<NewPointLocation(0)>>)}
        tiny == {NewRangeLocation(0, 1), NewPartialRangeLocation(1, BigCoord, TRUE, FALSE),
                 NewPointLocation(2)}
        lists == Joins(few, 2) \cup Orders(few, 2)
                 \cup {NewJoinLocation(<<>>), NewOrderLocation(<<>>)}
    IN  prims \cup Complements(prims) \cup lists \cup Complements(lists)
        \cup Nested(tiny)

\* The input of the location parser scenario.
ScenarioInput ==
    <<"j", "o", "i", "n", "(", "c", "o", "m", "p", "l", "e", "m", "e", "n", "t", "(", "5", ".", ".", "1", "0", ")", ",", "o", "r", "d", "e", "r", "(", "2", "0", ".", ".", "2", "5", ",", "3", "0", ".", ".", "3", "5", ")", ")">>

\* Bytes and byte pairs put after a formatted location.
Suffixes ==
    {<<>>, <<">">>, <<",">>, <<")">>, <<"(">>, <<"x">>, <<" ">>, <<".">>, <<"^">>,
     <<".", ".">>, <<".", "2">>, <<"^", "2">>, <<",", "x">>, <<",", "1">>}

\* The pieces the token strings are made of.
Tokens ==
    {<<"j", "o", "i", "n", "(">>,
     <<"o", "r", "d", "e", "r", "(">>,
     <<"c", "o", "m", "p", "l", "e", "m", "e", "n", "t", "(">>,
     <<"1">>, <<"2">>, <<".", ".">>, <<".">>, <<",">>, <<")">>, <<">">>}

RECURSIVE TokenStrings(_)
\* The strings of at most n tokens.
TokenStrings(n) ==
    IF n = 0 THEN {<<>>}
    ELSE TokenStrings(n - 1) \cup {t \o k : t \in TokenStrings(n - 1), k \in Tokens}

\* The inputs given to AsLocation and to the alternatives: the scenario
\* input, every formatted location followed by a suffix, and token strings.
\* base and sfx record how the text was made.
ParseInputs ==
    {[text |-> ScenarioInput, base |-> NoLocation, sfx |-> <<>>]}
    \cup {[text |-> String(l) \o x, base |-> l, sfx |-> x] :
             l \in RoundTripLocs, x \in Suffixes}
    \cup {[text |-> t, base |-> NoLocation, sfx |-> <<>>] : t \in TokenStrings(MaxTokens)}

\* The sequences Delete is called on: short ones and the one of 20 bytes of
\* the deletion scenario. Byte k of a sequence is the number k, and the
\* feature table holds a source feature over the whole sequence and one
\* other feature.
EditLens == (2..MaxEditLen) \cup {20}

EditCoords(len) == IF len = 20 THEN {0, 4, 5, 6, 10, 11, 15, 20} ELSE 0..len

EditLocs(len) ==
    PlainRanges(EditCoords(len)) \cup Points(EditCoords(len) \ {len})
    \cup {NewJoinLocation(<<NewRangeLocation(0, 2), NewPointLocation(len - 1)>>)}

\* The sequences of one length.
EditSequencesOf(len) ==
    {NewSequence([k \in 1..len |-> k],
                 <<NewFeature("source", NewRangeLocation(0, len), 0),
                   NewFeature("gene", l, 0)>>) : l \in EditLocs(len)}

EditSequences == UNION {EditSequencesOf(len) : len \in EditLens}

\* The flags a command registers: alias (or none) and long name.
FlagNames ==
    {[short |-> "o", long |-> <<"o", "u", "t", "p", "u", "t">>],
     [short |-> "F", long |-> <<"f", "o", "r", "m", "a", "t">>],
     [short |-> "e", long |-> <<"e", "m", "b", "e", "d">>],
     [short |-> NoShort, long |-> <<"e", "m", "p", "t", "y">>],
     [short |-> NoShort, long |-> <<"n", "o", "-", "k", "e", "y">>],
     [short |-> NoShort, long |-> <<"n", "u", "m", "b", "e", "r">>],
     [short |-> "v", long |-> <<"i", "n", "v", "e", "r", "t", "-", "m", "a", "t", "c", "h">>],
     [short |-> "d", long |-> <<"d", "e", "l", "i", "m", "i", "t", "e", "r">>],
     [short |-> "t", long |-> <<"s", "e", "p", "a", "r", "a", "t", "o", "r">>],
     [short |-> NoShort, long |-> <<"n", "o", "-", "l", "o", "c", "a", "t", "i", "o", "n">>]}

\* The kinds of value option, and the default value each is registered with.
ValueKinds == {"Bool", "Int", "String", "Strings"}

DefaultValue(kind) ==
    CASE kind = "Bool" -> NewBoolValue(FALSE)
      [] kind = "Int" -> NewIntValue(0)
      [] kind = "String" -> NewStringValue(<<>>)
      [] kind = "Strings" -> NewStringsValue(<<>>)

\* The parser of a command: an output path, a switch, a repeatable name
\* and a number.
CommandParser ==
    Register(
        Register(
            Switch(
                Register(NewParser, "o", <<"o", "u", "t", "p", "u", "t">>, NewStringValue(<<"-">>)),
                "e", <<"e", "m", "b", "e", "d">>),
            "n", <<"n", "a", "m", "e">>, NewStringsValue(<<>>)),
        NoShort, <<"n", "u", "m", "b", "e", "r">>, NewIntValue(0))

\* The names of the positionals a command registers, in order.
PositionalNames == <<"first", "second", "third", "fourth", "fifth", "sixth">>

\* The arguments of a command line.
ArgTexts ==
    {<<"i", "n">>,
     <<"7">>,
     <<"-", "e">>,
     <<"-", "-", "e", "m", "b", "e", "d">>,
     <<"-", "o">>,
     <<"-", "-", "o", "u", "t", "p", "u", "t", "=", "x">>,
     <<"-", "-", "n", "u", "m", "b", "e", "r">>,
     <<"-">>,
     <<"-", "n">>}

\* The texts LocationLess is given the locations of: points, ranges written
\* with every start and end, the end smaller than the start included, and
\* Complement, Join and Order locations that hold such a range.
LessInts == 1..(MaxLessCoord + 1)

LessRangeTexts == {Itoa(s0) \o <<".", ".">> \o Itoa(e0) : s0 \in LessInts, e0 \in LessInts}

LessPointTexts == {Itoa(p) : p \in LessInts}

LessTexts ==
    LessPointTexts \cup LessRangeTexts
        \cup {<<"c", "o", "m", "p", "l", "e", "m", "e", "n", "t", "(">> \o r \o <<")">> :
                r \in LessRangeTexts}
        \cup {<<"j", "o", "i", "n", "(">> \o r \o <<",">> \o q \o <<")">> :
                r \in LessRangeTexts, q \in LessPointTexts}
        \cup {<<"o", "r", "d", "e", "r", "(">> \o q \o <<",">> \o r \o <<")">> :
                r \in LessRangeTexts, q \in LessPointTexts}

\* The locations AsLocation returns for the texts it accepts.
AcceptedLocs == {AsLocation(t).val : t \in {u \in LessTexts : AsLocation(u).ok}}

\* The features of the records given to select and clear: a key, one of two
\* locations, with or without a /note qualifier.
NoteValues == [name \in {"note"} |-> <<"x">>]

SelectFeatureSet ==
    {NewFeature(key, l, qfs) :
        key \in FeatureKeys,
        l \in {NewPointLocation(0), NewRangeLocation(0, 2)},
        qfs \in {<<>>, NoteValues}}

RECURSIVE FeatureLists(_)
\* The feature lists of length k.
FeatureLists(k) ==
    IF k = 0 THEN {<<>>}
    ELSE {Append(ffl, f) : ffl \in FeatureLists(k - 1), f \in SelectFeatureSet}

\* The selector texts given to select.
SelectorTexts ==
    {<<"g", "e", "n", "e">>,
     <<"s", "o", "u", "r", "c", "e">>,
     <<"g", "e", "n", "e", "/", "n", "o", "t", "e">>,
     <<"C", "D", "S">>}

\* The records whose text is given to the GenBank parser: two molecules,
\* two topologies, with or without a DEFINITION, of 1 to MaxBases bases and
\* of one base more than an ORIGIN line holds.
BasesOf(n) == [k \in 1..n |-> IF k % 3 = 0 THEN "c" ELSE "a"]

BaseCounts == (1..MaxBases) \cup {LineBases + 1}

GenBankRecords ==
    {GenBank(<<"X", "_", "1">>, molecule, topology, <<"U", "N", "A">>,
             <<"1", "4", "-", "M", "A", "Y", "-", "2", "0", "2", "0">>, definition,
             BasesOf(n)) :
        molecule \in {<<"D", "N", "A">>, <<"s", "s", "-", "D", "N", "A">>},
        topology \in Topologies,
        definition \in {<<>>, <<"p", "h", "i", " ", "X", ".">>},
        n \in BaseCounts}

\* The records given to the formatter: those, and the same without bases.
FormatterRecords == GenBankRecords \cup {[g EXCEPT !.bytes = <<>>] : g \in GenBankRecords}

\* The ways a text departs from a record's: none, the LOCUS keyword
\* missing, a DEFINITION without a body, the text ending in the DEFINITION
\* keyword, an unknown keyword, and an ORIGIN line with a position of eight
\* columns, with two groups run together, with two spaces before a group.
Deviations ==
    {"valid", "nolocus", "nobody", "truncated", "unknown", "width", "ungrouped", "spaces"}

\* The index of the first ORIGIN line among the lines of g.
FirstOriginLine(g) == IF g.definition = <<>> THEN 3 ELSE 4

DropByte(line, k) == SubSeq(line, 1, k - 1) \o SubSeq(line, k + 1, Len(line))

\* The deviation can be made on the record.
Applicable(g, deviation) ==
    CASE deviation \in {"nobody", "truncated"} -> g.definition # <<>>
      [] deviation = "ungrouped" -> Len(g.bytes) > GroupLen
      [] OTHER -> TRUE

\* The lines of g with the deviation made.
Deviate(g, ls, deviation) ==
    CASE deviation = "valid" -> ls
      [] deviation = "nolocus" -> [ls EXCEPT ![1] = SubSeq(@, 13, Len(@))]
      [] deviation = "nobody" -> [ls EXCEPT ![2] = PadRight(KeywordDefinition, 12)]
      [] deviation = "unknown" ->
            <<ls[1], PadRight(<<"F", "O", "O">>, 12)>> \o Tail(ls)
      [] deviation = "width" -> [ls EXCEPT ![FirstOriginLine(g)] = Tail(@)]
      [] deviation = "ungrouped" ->
            [ls EXCEPT ![FirstOriginLine(g)] = DropByte(@, BaseColumn(GroupLen + 1) - 1)]
      [] deviation = "spaces" ->
            [ls EXCEPT ![FirstOriginLine(g)] =
                SubSeq(@, 1, PositionWidth) \o <<" ">> \o SubSeq(@, PositionWidth + 1, Len(@))]

\* The text of g with the deviation made.
GenBankText(g, deviation) ==
    IF deviation = "truncated" THEN FormatLocus(g) \o <<"\n">> \o KeywordDefinition
    ELSE JoinLines(Deviate(g, FormatRecord(g), deviation))

\* The sequences Locate is called on.
Bases == {"a", "c"}

Sequences == [1..MaxSeqLen -> Bases]

\* The Join and Order locations Locate is called on: up to two children,
\* each a location within the sequence, a Complement of one, or a list.
LocateLocs ==
    LET C == 0..MaxSeqLen
        prims == Points(0..(MaxSeqLen - 1)) \cup PlainRanges(C)
                 \cup {NewAmbiguousLocation(0, 1), NewBetweenLocation(1, 2)}
        few == {NewPointLocation(0), NewRangeLocation(1, MaxSeqLen),
                NewComplementLocation(NewPointLocation(1))}
        kids == prims \cup Complements(prims) \cup Joins(few, 2) \cup Orders(few, 1)
                \cup Complements(Joins(few, 1))
    IN  Joins(kids, 2) \cup Orders(kids, 2)

\* -------------------------------------------------------------- variables
VARIABLES
    loc,    \* the location Shift is called on
    prev,   \* loc before the last Shift call
    off,    \* the offset of the last Shift call
    amt,    \* the amount of the last Shift call
    ok,     \* the result of the last Shift call
    undo,   \* the last call was Shift(o, -n) right after Shift(o, +n), n > 0
    orig    \* when undo: loc before that pair of calls

VARIABLES
    la,       \* first argument of LocationLess
    lb,       \* second argument of LocationLess
    compared, \* whether LocationLess has been called on (la, lb)
    less,     \* the result of LocationLess(la, lb)
    lessBack  \* the result of LocationLess(lb, la)

VARIABLES
    ff,       \* the FeatureList
    before,   \* ff before the last Add call
    added,    \* the feature of the last Add call
    panicked  \* whether the last Add call panicked

VARIABLES
    rtLoc,    \* the location that is formatted
    text,     \* rtLoc.String(), once formatted
    parsed,   \* AsLocation(text), once parsed
    phase     \* "new", "formatted" or "parsed"

VARIABLES
    locate,   \* one call of Locate: the location, the sequence, the outcome
    parse,    \* one call of AsLocation, or of one alternative, on a text
    edit,     \* one call of Delete: the sequence, the arguments, the outcome
    fq,       \* a parsed feature, the changes to its qualifiers, its formatting
    cli,      \* a flags.Parser, and the outcome of Help or Parse
    run,      \* one run of a subcommand: where it is and the files it holds open
    sel,      \* one record of select or clear: its features, the selector, the output
    gbio      \* one GenBank text or record, and what the parser and formatter made of it

rtVars == <<rtLoc, text, parsed, phase>>

featVars == <<ff, before, added, panicked>>

shiftVars == <<loc, prev, off, amt, ok, undo, orig>>

lessVars == <<la, lb, compared, less, lessBack>>

coreVars == <<featVars, shiftVars, lessVars, rtVars>>

moreVars == <<locate, parse, edit, fq, cli, run, sel, gbio>>

vars == <<coreVars, moreVars>>

ShiftIdle ==
    /\ loc = NoLocation
    /\ prev = NoLocation
    /\ off = 0
    /\ amt = 0
    /\ ok = TRUE
    /\ undo = FALSE
    /\ orig = NoLocation

LessIdle ==
    /\ la = NoLocation
    /\ lb = NoLocation
    /\ compared = FALSE
    /\ less = LessValue(FALSE)
    /\ lessBack = LessValue(FALSE)

RoundTripIdle ==
    /\ rtLoc = NoLocation
    /\ text = <<>>
    /\ parsed = [ok |-> FALSE, val |-> NoLocation]
    /\ phase = "new"

NoFeature == NewFeature("", NoLocation, 0)

FeatIdle ==
    /\ ff = <<>>
    /\ before = <<>>
    /\ added = NoFeature
    /\ panicked = FALSE

LocateIdle == locate = [loc |-> NoLocation, seq |-> <<>>, bytes |-> <<>>, done |-> FALSE]

CoreIdle == FeatIdle /\ ShiftIdle /\ LessIdle /\ RoundTripIdle

NoResult == [ok |-> FALSE, val |-> NoLocation]

NoAlternative == [k |-> 0, ok |-> FALSE, pos |-> 0, depth |-> 0]

ParseIdle ==
    parse = [text |-> <<>>, base |-> NoLocation, sfx |-> <<>>, phase |-> "idle",
             res |-> NoResult, alt |-> NoAlternative]

NoSequence == NewSequence(<<>>, <<>>)

EditIdle == edit = [seq |-> NoSequence, i |-> 0, n |-> 0, out |-> NoSequence, done |-> FALSE]

NoOutput == [panic |-> FALSE, head |-> <<>>, lines |-> <<>>]

FormatIdle ==
    fq = [f |-> ParsedFeature("", NoLocation, <<>>), changes |-> 0, out |-> NoOutput,
          done |-> FALSE]

\* No Parse call yet.
NotParsed == Parsed(NewParser)

CliIdle ==
    cli = [parser |-> NewParser, phase |-> "idle", help |-> <<>>, args |-> <<>>,
           out |-> NotParsed]

RunIdle ==
    run = [cmd |-> "none", inPath |-> "-", outPath |-> "-", pc |-> "idle", open |-> {},
           deferred |-> <<>>, read |-> FALSE, guests |-> 0, scanned |-> 0, written |-> 0,
           writer |-> FALSE, flushed |-> FALSE, flushFailed |-> FALSE, exit |-> "none"]

SelectIdle ==
    sel = [features |-> <<>>, text |-> <<>>, invert |-> FALSE, cmd |-> "none", out |-> <<>>]

GenBankIdle ==
    gbio = [phase |-> "idle", input |-> <<>>, deviation |-> "valid", result |-> ParseError,
            record |-> NoGenBank, wrote |-> Written(<<>>, FALSE)]

MoreIdle == LocateIdle /\ ParseIdle /\ EditIdle /\ FormatIdle /\ CliIdle /\ RunIdle /\ SelectIdle /\ GenBankIdle

\* What each of the later specifications leaves alone.
exceptLocate == <<coreVars, parse, edit, fq, cli, run, sel, gbio>>

LocateAlone == CoreIdle /\ ParseIdle /\ EditIdle /\ FormatIdle /\ CliIdle /\ RunIdle /\ SelectIdle /\ GenBankIdle

exceptParse == <<coreVars, locate, edit, fq, cli, run, sel, gbio>>

ParseAlone == CoreIdle /\ LocateIdle /\ EditIdle /\ FormatIdle /\ CliIdle /\ RunIdle /\ SelectIdle /\ GenBankIdle

exceptDelete == <<coreVars, locate, parse, fq, cli, run, sel, gbio>>

DeleteAlone == CoreIdle /\ LocateIdle /\ ParseIdle /\ FormatIdle /\ CliIdle /\ RunIdle /\ SelectIdle /\ GenBankIdle

exceptFormat == <<coreVars, locate, parse, edit, cli, run, sel, gbio>>

FormatAlone == CoreIdle /\ LocateIdle /\ ParseIdle /\ EditIdle /\ CliIdle /\ RunIdle /\ SelectIdle /\ GenBankIdle

exceptHelp == <<coreVars, locate, parse, edit, fq, run, sel, gbio>>

HelpAlone == CoreIdle /\ LocateIdle /\ ParseIdle /\ EditIdle /\ FormatIdle /\ RunIdle /\ SelectIdle /\ GenBankIdle

exceptRun == <<coreVars, locate, parse, edit, fq, cli, sel, gbio>>

RunAlone == CoreIdle /\ LocateIdle /\ ParseIdle /\ EditIdle /\ FormatIdle /\ CliIdle /\ SelectIdle /\ GenBankIdle

exceptSelect == <<coreVars, locate, parse, edit, fq, cli, run, gbio>>

SelectAlone == CoreIdle /\ LocateIdle /\ ParseIdle /\ EditIdle /\ FormatIdle /\ CliIdle /\ RunIdle /\ GenBankIdle

exceptGenBank == <<coreVars, locate, parse, edit, fq, cli, run, sel>>

GenBankAlone == CoreIdle /\ LocateIdle /\ ParseIdle /\ EditIdle /\ FormatIdle /\ CliIdle /\ RunIdle /\ SelectIdle

\* ------------------------------------------- specification: feature table
Init ==
    /\ ff = <<>>
    /\ before = <<>>
    /\ added = NoFeature
    /\ panicked = FALSE
    /\ ShiftIdle
    /\ LessIdle
    /\ RoundTripIdle
    /\ MoreIdle

\* One call ff.Add(f).
AddFeature ==
    /\ Len(ff) < MaxFeatures
    /\ \E key \in FeatureKeys, l \in FeatureLocs :
        LET f == NewFeature(key, l, Len(ff) + 1)
            r == Add(ff, f)
        IN  /\ ff' = r.ff
            /\ panicked' = r.panic
            /\ before' = ff
            /\ added' = f
    /\ UNCHANGED <<shiftVars, lessVars, rtVars, moreVars>>

Next == AddFeature

Spec == Init /\ [][Next]_vars

\* --------------------------------------------------- specification: Shift
ShiftInit ==
    /\ loc \in ShiftLocs
    /\ prev = loc
    /\ off = 0
    /\ amt = 0
    /\ ok = TRUE
    /\ undo = FALSE
    /\ orig = loc
    /\ LessIdle
    /\ FeatIdle
    /\ RoundTripIdle
    /\ MoreIdle

\* One call loc.Shift(o, n). Coordinates are kept within 0..MaxCoord.
ShiftStep ==
    /\ \E o \in 0..MaxCoord, n \in (0 - MaxAmount)..MaxAmount :
        LET r == Shift(loc, o, n)
        IN  /\ MaxCoordOf(r.loc) <= MaxCoord
            /\ loc' = r.loc
            /\ ok' = r.ok
            /\ prev' = loc
            /\ off' = o
            /\ amt' = n
            /\ undo' = (amt > 0 /\ n = 0 - amt /\ o = off)
            /\ orig' = IF amt > 0 /\ n = 0 - amt /\ o = off THEN prev ELSE loc
    /\ UNCHANGED <<featVars, lessVars, rtVars, moreVars>>

ShiftNext == ShiftStep

SpecShift == ShiftInit /\ [][ShiftNext]_vars

\* -------------------------------------------- specification: LocationLess
LessInit ==
    /\ la \in LessLocs
    /\ lb \in LessLocs
    /\ compared = FALSE
    /\ less = LessValue(FALSE)
    /\ lessBack = LessValue(FALSE)
    /\ ShiftIdle
    /\ FeatIdle
    /\ RoundTripIdle
    /\ MoreIdle

\* LocationLess is called on the pair in both orders.
Compare ==
    /\ ~compared
    /\ compared' = TRUE
    /\ less' = LocationLess(la, lb)
    /\ lessBack' = LocationLess(lb, la)
    /\ UNCHANGED <<la, lb, featVars, shiftVars, rtVars, moreVars>>

LessNext == Compare

SpecLess == LessInit /\ [][LessNext]_vars

\* ------------------------------ specification: LocationLess after AsLocation
\* The two locations are what AsLocation returned for two texts.
LessParsedInit ==
    /\ la \in AcceptedLocs
    /\ lb \in AcceptedLocs
    /\ compared = FALSE
    /\ less = LessValue(FALSE)
    /\ lessBack = LessValue(FALSE)
    /\ ShiftIdle
    /\ FeatIdle
    /\ RoundTripIdle
    /\ MoreIdle

SpecLessParsed == LessParsedInit /\ [][LessNext]_vars

\* ------------------------------------ specification: format and parse back
RoundTripInit ==
    /\ rtLoc \in RoundTripLocs
    /\ text = <<>>
    /\ parsed = [ok |-> FALSE, val |-> NoLocation]
    /\ phase = "new"
    /\ FeatIdle
    /\ ShiftIdle
    /\ LessIdle
    /\ MoreIdle

\* text = rtLoc.String()
Format ==
    /\ phase = "new"
    /\ text' = String(rtLoc)
    /\ phase' = "formatted"
    /\ UNCHANGED <<rtLoc, parsed, featVars, shiftVars, lessVars, moreVars>>

\* parsed = AsLocation(text)
Parse ==
    /\ phase = "formatted"
    /\ parsed' = AsLocation(text)
    /\ phase' = "parsed"
    /\ UNCHANGED <<rtLoc, text, featVars, shiftVars, lessVars, moreVars>>

RoundTripNext == Format \/ Parse

SpecRoundTrip == RoundTripInit /\ [][RoundTripNext]_vars

\* ------------------------------------------------- specification: Locate
LocateInit ==
    /\ locate \in [loc : LocateLocs, seq : Sequences, bytes : {<<>>}, done : {FALSE}]
    /\ LocateAlone

\* bytes = loc.Locate(seq).Bytes()
LocateStep ==
    /\ ~locate.done
    /\ locate' = [locate EXCEPT !.bytes = Locate(locate.loc, locate.seq),
                                !.done = TRUE]
    /\ UNCHANGED exceptLocate

LocateNext == LocateStep

SpecLocate == LocateInit /\ [][LocateNext]_vars

\* ------------------------------------------------ specification: parsing
ParseInit ==
    /\ \E in \in ParseInputs :
        parse = [text |-> in.text, base |-> in.base, sfx |-> in.sfx, phase |-> "new",
                 res |-> NoResult, alt |-> NoAlternative]
    /\ ParseAlone

\* res = AsLocation(text)
ParseText ==
    /\ parse.phase = "new"
    /\ parse' = [parse EXCEPT !.res = AsLocation(parse.text), !.phase = "parsed"]
    /\ UNCHANGED exceptParse

\* The state an alternative starts in: pars.Any has saved the position.
AlternativeStart(input) == Push(FromString(input))

\* What an alternative leaves: its result, the cursor, the depth of the stack.
AlternativeOutcome(r, k) ==
    [k |-> k, ok |-> r.ok, pos |-> r.st.pos, depth |-> Len(r.st.stk)]

\* One of the seven alternatives of LocationParser runs on the text.
TryAlternative ==
    /\ parse.phase = "new"
    /\ \E k \in 1..7 :
        parse' = [parse EXCEPT
                    !.alt = AlternativeOutcome(Alternative(AlternativeStart(parse.text), k), k),
                    !.phase = "tried"]
    /\ UNCHANGED exceptParse

ParseNext == ParseText \/ TryAlternative

SpecParse == ParseInit /\ [][ParseNext]_vars

\* ------------------------------------------------- specification: Delete
DeleteInit ==
    /\ \E q \in EditSequences :
        edit = [seq |-> q, i |-> 0, n |-> 0, out |-> NoSequence, done |-> FALSE]
    /\ DeleteAlone

\* out = Delete(seq, i, n), the deleted bytes lying within the sequence.
DeleteStep ==
    /\ ~edit.done
    /\ \E i \in 0..Len(edit.seq.bytes) :
        \E n \in 0..(Len(edit.seq.bytes) - i) :
            edit' = [edit EXCEPT !.i = i, !.n = n, !.out = Delete(edit.seq, i, n),
                                 !.done = TRUE]
    /\ UNCHANGED exceptDelete

DeleteNext == DeleteStep

SpecDelete == DeleteInit /\ [][DeleteNext]_vars

\* ------------------------------------- specification: feature formatting
\* The qualifier lines of a source: at most MaxQualifiers names, repeats
\* allowed.
QualifierSources ==
    UNION {[1..n -> {QualifierNames[k] : k \in 1..Len(QualifierNames)}] :
              n \in 0..MaxQualifiers}

FormatInit ==
    /\ \E src \in QualifierSources :
        fq = [f |-> ParsedFeature("gene", NewRangeLocation(0, 3), src), changes |-> 0,
              out |-> NoOutput, done |-> FALSE]
    /\ FormatAlone

\* delete(f.Qualifiers, name) after parsing.
DeleteQualifier ==
    /\ ~fq.done
    /\ fq.changes < MaxChanges
    /\ \E name \in DOMAIN fq.f.Qualifiers :
        fq' = [fq EXCEPT
                !.f.Qualifiers = [m \in (DOMAIN fq.f.Qualifiers) \ {name} |->
                                    fq.f.Qualifiers[m]],
                !.changes = fq.changes + 1]
    /\ UNCHANGED exceptFormat

\* f.Qualifiers.Add(name, value) after parsing; the value is the number 0.
AddQualifier ==
    /\ ~fq.done
    /\ fq.changes < MaxChanges
    /\ \E k \in 1..Len(QualifierNames) :
        fq' = [fq EXCEPT !.f.Qualifiers = ValuesAdd(fq.f.Qualifiers, QualifierNames[k], 0),
                         !.changes = fq.changes + 1]
    /\ UNCHANGED exceptFormat

\* out = f.Format(prefix, depth).String()
FormatFeature ==
    /\ ~fq.done
    /\ fq' = [fq EXCEPT !.out = FeatureString(fq.f), !.done = TRUE]
    /\ UNCHANGED exceptFormat

FormatNext == DeleteQualifier \/ AddQualifier \/ FormatFeature

SpecFormat == FormatInit /\ [][FormatNext]_vars

\* --------------------------------------------------- specification: Help
HelpInit ==
    /\ cli = [parser |-> NewParser, phase |-> "setup", help |-> <<>>, args |-> <<>>,
              out |-> NotParsed]
    /\ HelpAlone

\* The long names registered so far.
Registered(parser) == (DOMAIN parser.values) \cup (DOMAIN parser.switches)

\* A flag a command can still register: its name is new and so is its alias.
Fresh(parser, fl) ==
    /\ fl.long \notin Registered(parser)
    /\ fl.short \notin DOMAIN parser.aliases

\* parser.Bool, Int, String or Strings registers a value option.
RegisterValue ==
    /\ cli.phase = "setup"
    /\ Cardinality(Registered(cli.parser)) < MaxFlags
    /\ \E fl \in FlagNames, kind \in ValueKinds :
        /\ Fresh(cli.parser, fl)
        /\ cli' = [cli EXCEPT !.parser =
                       Register(cli.parser, fl.short, fl.long, DefaultValue(kind))]
    /\ UNCHANGED exceptHelp

\* parser.Switch registers a switch.
RegisterSwitch ==
    /\ cli.phase = "setup"
    /\ Cardinality(Registered(cli.parser)) < MaxFlags
    /\ \E fl \in FlagNames :
        /\ Fresh(cli.parser, fl)
        /\ cli' = [cli EXCEPT !.parser = Switch(cli.parser, fl.short, fl.long)]
    /\ UNCHANGED exceptHelp

\* help = parser.Help()
CallHelp ==
    /\ cli.phase = "setup"
    /\ cli' = [cli EXCEPT !.help = Help(cli.parser), !.phase = "helped"]
    /\ UNCHANGED exceptHelp

HelpNext == RegisterValue \/ RegisterSwitch \/ CallHelp

SpecHelp == HelpInit /\ [][HelpNext]_vars

\* -------------------------------------------------- specification: Parse
ArgsInit ==
    /\ cli = [parser |-> CommandParser, phase |-> "setup", help |-> <<>>, args |-> <<>>,
              out |-> NotParsed]
    /\ HelpAlone

\* parser.Mandatory(name); a command registers its mandatory positionals
\* before the optional ones.
AddMandatory ==
    /\ cli.phase = "setup"
    /\ cli.parser.optional = <<>>
    /\ Len(cli.parser.mandatory) < MaxPositionals
    /\ cli' = [cli EXCEPT !.parser =
                   Mandatory(@, PositionalNames[Len(cli.parser.mandatory) + 1])]
    /\ UNCHANGED exceptHelp

\* parser.Optional(name)
AddOptional ==
    /\ cli.phase = "setup"
    /\ Len(cli.parser.optional) < MaxPositionals
    /\ cli' = [cli EXCEPT !.parser =
                   Optional(@, PositionalNames[
                       Len(cli.parser.mandatory) + Len(cli.parser.optional) + 1])]
    /\ UNCHANGED exceptHelp

\* One more argument on the command line.
GiveArg ==
    /\ cli.phase = "setup"
    /\ Len(cli.args) < MaxArgs
    /\ \E arg \in ArgTexts : cli' = [cli EXCEPT !.args = Append(@, arg)]
    /\ UNCHANGED exceptHelp

\* parser.Parse(args)
CallParse ==
    /\ cli.phase = "setup"
    /\ cli' = [cli EXCEPT !.out = ParserParse(cli.parser, cli.args), !.phase = "parsed"]
    /\ UNCHANGED exceptHelp

ArgsNext == AddMandatory \/ AddOptional \/ GiveArg \/ CallParse

SpecArgs == ArgsInit /\ [][ArgsNext]_vars

\* --------------------------------------------- specification: subcommands
\* A subcommand starts on an input path, or standard input, and an output
\* path, or standard output, with no file open.
RunInit ==
    /\ \E cmd \in Commands, inPath \in {"-", "path"}, outPath \in {"-", "path"} :
        run = [cmd |-> cmd, inPath |-> inPath, outPath |-> outPath, pc |-> "parse",
               open |-> {}, deferred |-> <<>>, read |-> FALSE, guests |-> 0,
               scanned |-> 0, written |-> 0, writer |-> FALSE, flushed |-> FALSE,
               flushFailed |-> FALSE, exit |-> "none"]
    /\ RunAlone

\* ctx.Parse(pos, opt): an error is returned as it is.
ParseArguments ==
    /\ run.pc = "parse"
    /\ \E good \in BOOLEAN :
        run' = IF good THEN [run EXCEPT !.pc = AfterParse(run.cmd)] ELSE Return(run, "error")
    /\ UNCHANGED exceptRun

\* gts.Selector(*selector) of select: a syntax error is returned.
ParseSelector ==
    /\ run.pc = "selector"
    /\ \E good \in BOOLEAN :
        run' = IF good THEN [run EXCEPT !.pc = "openInput"] ELSE Return(run, "error")
    /\ UNCHANGED exceptRun

\* The input file: standard input, or os.Open and a deferred Close.
OpenInput ==
    /\ run.pc = "openInput"
    /\ \E good \in BOOLEAN :
        run' = IF run.inPath = "-" THEN [run EXCEPT !.pc = AfterInput(run.cmd)]
               ELSE IF good
               THEN [Opened(run, "input", TRUE) EXCEPT !.pc = AfterInput(run.cmd)]
               ELSE Return(run, "error")
    /\ UNCHANGED exceptRun

\* The guest file of insert, with a deferred Close; the feature table of
\* annotate, with none.
OpenSecond ==
    /\ run.pc = "openSecond"
    /\ \E good \in BOOLEAN :
        run' = IF good
               THEN [Opened(run, SecondFile(run.cmd), run.cmd = "insert")
                        EXCEPT !.pc = "createOutput"]
               ELSE Return(run, "error")
    /\ UNCHANGED exceptRun

\* The output file: standard output, or os.Create and a deferred Close.
CreateOutput ==
    /\ run.pc = "createOutput"
    /\ \E good \in BOOLEAN :
        run' = IF run.outPath = "-" THEN AfterOutput(run)
               ELSE IF good
               THEN AfterOutput(Opened(run, "output", TRUE))
               ELSE Return(run, "error")
    /\ UNCHANGED exceptRun

\* insert scans the guests, and with none calls ctx.Raise and goes on;
\* annotate parses the feature table and asserts the type of the result,
\* which panics when the parse failed.
ReadSecond ==
    /\ run.pc = "readSecond"
    /\ \E good \in BOOLEAN, guests \in 0..MaxRecords :
        run' = IF run.cmd = "insert"
               THEN [StartScan(run) EXCEPT !.read = TRUE, !.guests = guests]
               ELSE IF good THEN [StartScan(run) EXCEPT !.read = TRUE]
               ELSE Return(run, "panic")
    /\ UNCHANGED exceptRun

\* One record scanned and its output written: the write that fails, if
\* one does, returns the error.
WriteRecord ==
    /\ run.pc = "scan"
    /\ run.scanned < MaxRecords
    /\ \E failAt \in 0..PerRecord(run) :
        run' = IF failAt = 0
               THEN [run EXCEPT !.scanned = @ + 1, !.written = @ + PerRecord(run)]
               ELSE Return([run EXCEPT !.scanned = @ + 1, !.written = @ + failAt - 1],
                           "error")
    /\ UNCHANGED exceptRun

\* w.Flush() after the scan loop: sequenceLength returns its error, the
\* others drop it.
Flush ==
    /\ run.pc = "scan"
    /\ run.writer
    /\ \E failed \in BOOLEAN :
        run' = IF failed /\ FlushChecked(run.cmd)
               THEN Return([run EXCEPT !.flushed = TRUE, !.flushFailed = TRUE], "error")
               ELSE [run EXCEPT !.pc = "flushed", !.flushed = TRUE,
                                !.flushFailed = failed]
    /\ UNCHANGED exceptRun

\* The scanner is done: its error, or nil, is returned.
Finish ==
    /\ run.pc = AfterScan(run.cmd)
    /\ \E exit \in {"nil", "error"} : run' = Return(run, exit)
    /\ UNCHANGED exceptRun

RunNext ==
    \/ ParseArguments
    \/ ParseSelector
    \/ OpenInput
    \/ OpenSecond
    \/ CreateOutput
    \/ ReadSecond
    \/ WriteRecord
    \/ Flush
    \/ Finish

SpecRun == RunInit /\ [][RunNext]_vars

\* ------------------------------------------- specification: select and clear
\* A record with its features, a selector text and the -v switch.
SelectInit ==
    /\ \E k \in 0..MaxSelectLen, query \in SelectorTexts, invert \in BOOLEAN :
        \E features \in FeatureLists(k) :
            sel = [features |-> features, text |-> query, invert |-> invert,
                   cmd |-> "none", out |-> <<>>]
    /\ SelectAlone

\* featureSelect on the record.
RunSelect ==
    /\ sel.cmd = "none"
    /\ sel' = [sel EXCEPT !.cmd = "select",
                          !.out = SelectFeatures(sel.features, sel.text, sel.invert)]
    /\ UNCHANGED exceptSelect

\* featureClear on the record.
RunClear ==
    /\ sel.cmd = "none"
    /\ sel' = [sel EXCEPT !.cmd = "clear", !.out = ClearFeatures(sel.features)]
    /\ UNCHANGED exceptSelect

SelectNext == RunSelect \/ RunClear

SpecSelect == SelectInit /\ [][SelectNext]_vars

\* ---------------------------------------------------- specification: GenBank
\* A text for the parser, or a record for the formatter.
GenBankInit ==
    /\ \/ \E g \in GenBankRecords, deviation \in Deviations :
            /\ Applicable(g, deviation)
            /\ gbio = [phase |-> "text", input |-> GenBankText(g, deviation),
                       deviation |-> deviation, result |-> ParseError,
                       record |-> NoGenBank, wrote |-> Written(<<>>, FALSE)]
       \/ \E g \in FormatterRecords :
            gbio = [phase |-> "record", input |-> <<>>, deviation |-> "valid",
                    result |-> ParseError, record |-> g, wrote |-> Written(<<>>, FALSE)]
    /\ GenBankAlone

\* parser.Parse(state) on the text.
ParseGenBank ==
    /\ gbio.phase = "text"
    /\ gbio' = [gbio EXCEPT !.phase = "parsed", !.result = GenBankParser(gbio.input)]
    /\ UNCHANGED exceptGenBank

\* GenBankFormatter{&gb}.WriteTo(&b) on the parsed record.
FormatParsed ==
    /\ gbio.phase = "parsed"
    /\ gbio.result.ok
    /\ gbio' = [gbio EXCEPT !.phase = "written", !.record = gbio.result.gb,
                            !.wrote = WriteTo(gbio.result.gb)]
    /\ UNCHANGED exceptGenBank

\* GenBankFormatter{seq}.WriteTo(&w) on a record.
FormatGiven ==
    /\ gbio.phase = "record"
    /\ gbio' = [gbio EXCEPT !.phase = "formatted", !.wrote = WriteTo(gbio.record)]
    /\ UNCHANGED exceptGenBank

GenBankNext == ParseGenBank \/ FormatParsed \/ FormatGiven

SpecGenBank == GenBankInit /\ [][GenBankNext]_vars

\* ------------------------------------------------------ claims about Shift
RECURSIVE MinSpanLen(_)
RECURSIVE MinSpanLenList(_)
MinSpanLenList(locs) ==
    IF locs = <<>> THEN 2
    ELSE LET h == MinSpanLen(Head(locs))
             t == MinSpanLenList(Tail(locs))
         IN  IF h < t THEN h ELSE t

\* The length of the shortest Range, Ambiguous or Between inside a location
\* (2 when it holds none).
MinSpanLen(l) ==
    CASE l.kind = "Point" -> 2
      [] IsSpan(l) -> IF l.End - l.Start < 2 THEN l.End - l.Start ELSE 2
      [] l.kind = "Complement" -> MinSpanLen(l.Location)
      [] IsList(l) -> MinSpanLenList(l.Locations)

C6_DeletionRule ==
    (IsSpan(prev) /\ amt < 0) =>
        LET c == IF off - amt <= prev.Start THEN prev.Start + amt ELSE prev.Start
            d == IF off - amt <= prev.End THEN prev.End + amt ELSE prev.End
        IN  /\ ok = (c < d - 1)
            /\ ok => (loc.Start = c /\ loc.End = d)
            /\ ~ok => (loc.Start = prev.Start /\ loc.End = prev.End)

C6_Witness ==
    /\ IsSpan(prev)
    /\ amt < 0
    /\ off - amt <= prev.Start
    /\ ~ok
    /\ loc = prev

\* C7: an insertion (amount > 0) on a Range, Ambiguous or Between [a,b) always
\* returns true, moves the start exactly when offset <= a and the end exactly
\* when offset <= b; amount = 0 returns true and changes nothing; the partial
\* flags of a Range are never changed by Shift.
C7_InsertionRule ==
    /\ (IsSpan(prev) /\ amt > 0) =>
          /\ ok
          /\ loc.Start = (IF off <= prev.Start THEN prev.Start + amt ELSE prev.Start)
          /\ loc.End = (IF off <= prev.End THEN prev.End + amt ELSE prev.End)
    /\ (IsSpan(prev) /\ amt = 0) => (ok /\ loc = prev)
    /\ prev.kind = "Range" =>
          (loc.Partial5 = prev.Partial5 /\ loc.Partial3 = prev.Partial3)

C7_Witness ==
    /\ prev.kind = "Range"
    /\ prev.Partial5
    /\ amt > 0
    /\ off = prev.Start
    /\ ok
    /\ loc.Start = prev.Start + amt
    /\ loc.End = prev.End + amt

\* C8: Shift on a Join or Order calls Shift on every child, also after an
\* earlier child returned false, and returns true iff every child did; Shift
\* on a Complement returns the inner location's result.
C8_FanOut ==
    /\ IsList(prev) =>
          /\ Len(loc.Locations) = Len(prev.Locations)
          /\ \A i \in 1..Len(prev.Locations) :
                loc.Locations[i] = Shift(prev.Locations[i], off, amt).loc
          /\ ok = (\A i \in 1..Len(prev.Locations) :
                      Shift(prev.Locations[i], off, amt).ok)
    /\ prev.kind = "Complement" =>
          /\ ok = Shift(prev.Location, off, amt).ok
          /\ loc.Location = Shift(prev.Location, off, amt).loc

C8_Witness ==
    /\ IsList(prev)
    /\ ~ok
    /\ \E i, j \in 1..Len(prev.Locations) :
          /\ i < j
          /\ ~Shift(prev.Locations[i], off, amt).ok
          /\ loc.Locations[i] = prev.Locations[i]
          /\ loc.Locations[j] # prev.Locations[j]

\* C9: Shift on Point(p) returns false and leaves p alone exactly when
\* amount < 0 and offset <= p < offset + |amount|; otherwise it returns true
\* and p becomes p + amount when offset <= p and amount # 0, and stays p
\* otherwise.
C9_PointRule ==
    prev.kind = "Point" =>
        LET p == prev.Position
            deleted == amt < 0 /\ off <= p /\ p < off - amt
        IN  /\ ok = ~deleted
            /\ deleted => loc.Position = p
            /\ ~deleted =>
                  loc.Position = (IF off <= p /\ amt # 0 THEN p + amt ELSE p)

C9_Witness ==
    /\ prev.kind = "Point"
    /\ amt < 0
    /\ ~ok
    /\ loc = prev

\* ----------------------------------------------- claims about LocationLess
\* The pair (l.Map(0), l.Map(l.Len()-1)).
EndsOf(l) == <<Map(l, 0).v, Map(l, LocLen(l) - 1).v>>

LexLess(p, q) == p[1] < q[1] \/ (p[1] = q[1] /\ p[2] < q[2])

\* C10: on locations of length >= 1 LocationLess(a, b) holds exactly when
\* (a.Map(0), a.Map(a.Len()-1)) is lexicographically smaller than the pair of
\* b; it is irreflexive, asymmetric and transitive, locations with equal pairs
\* compare equal in both directions, and wrapping either side in a Complement
\* does not change the result.
C10_LocationLessOrder ==
    compared =>
        /\ ~less.panic /\ ~lessBack.panic
        /\ less.v = LexLess(EndsOf(la), EndsOf(lb))
        /\ lessBack.v = LexLess(EndsOf(lb), EndsOf(la))
        /\ la = lb => ~less.v
        /\ less.v => ~lessBack.v
        /\ EndsOf(la) = EndsOf(lb) => (~less.v /\ ~lessBack.v)
        /\ \A c \in LessLocs :
              /\ (less.v /\ LocationLess(lb, c).v) => LocationLess(la, c).v
              /\ (~less.v /\ ~lessBack.v) =>
                    /\ LocationLess(la, c) = LocationLess(lb, c)
                    /\ LocationLess(c, la) = LocationLess(c, lb)
        /\ LocationLess(NewComplementLocation(la), lb) = less
        /\ LocationLess(la, NewComplementLocation(lb)) = less

C10_Witness ==
    /\ compared
    /\ la.kind = "Complement"
    /\ lb.kind = "Join"
    /\ Map(la, 0) = Map(lb, 0)
    /\ less.v
    /\ ~lessBack.v

\* ------------------------------------------- claims about the feature table
IsSource(f) == f.Key = "source"

\* The FeatureList invariant: source features first, and each of the two
\* groups sorted by LocationLess.
FeatureListInvariant(ffl) ==
    \A i, j \in 1..Len(ffl) :
        i < j =>
            /\ ~(~IsSource(ffl[i]) /\ IsSource(ffl[j]))
            /\ (IsSource(ffl[i]) = IsSource(ffl[j]))
                  => ~LocationLess(ffl[j].Location, ffl[i].Location).v

\* C1 as stated: after any sequence of Add calls from the empty list, no
\* feature is ByLocation-less than the feature right before it.
C1_SortedByLocation ==
    \A k \in 1..(Len(ff) - 1) : ~ByLocationLess(ff[k + 1], ff[k]).v

\* C1 amended: after any sequence of Add calls from the empty list, no
\* feature is ByLocation-less than the feature right before it unless both
\* are keyed source; the source features stand in their order of addition.
C1_SortedExceptSources ==
    /\ \A k \in 1..(Len(ff) - 1) :
          ~(IsSource(ff[k]) /\ IsSource(ff[k + 1]))
              => ~ByLocationLess(ff[k + 1], ff[k]).v
    /\ \A i, j \in 1..Len(ff) :
          (i < j /\ IsSource(ff[i]) /\ IsSource(ff[j]))
              => ff[i].Qualifiers < ff[j].Qualifiers

C1_Witness ==
    /\ Len(ff) = MaxFeatures
    /\ IsSource(ff[1]) /\ IsSource(ff[2])
    /\ LocationLess(ff[2].Location, ff[1].Location).v
    /\ ~IsSource(ff[3])
    /\ LocationLess(ff[3].Location, ff[4].Location).v
    /\ ff[4].Qualifiers < ff[3].Qualifiers

\* C2: after any sequence of Add calls from the empty list, no non-source
\* feature stands at a lower index than a source feature.
C2_SourceFirst ==
    \A i, j \in 1..Len(ff) : i < j => ~(~IsSource(ff[i]) /\ IsSource(ff[j]))

C2_Witness ==
    /\ Len(ff) >= 3
    /\ IsSource(added)
    /\ ~IsSource(before[Len(before)])
    /\ \E k \in 1..Len(before) :
          /\ ~IsSource(before[k])
          /\ LocationLess(before[k].Location, added.Location).v

\* The 1-based index at which Add is claimed to put f into ffl.
ClaimedIndex(ffl, f) ==
    LET n == Cardinality({k \in 1..Len(ffl) : IsSource(ffl[k])})
        greater == {k \in (n + 1)..Len(ffl) :
                        LocationLess(f.Location, ffl[k].Location).v}
    IN  IF IsSource(f) THEN n + 1
        ELSE IF greater = {} THEN Len(ffl) + 1
        ELSE CHOOSE k \in greater : \A g \in greater : k <= g

\* C3: Add(f) on a list that satisfies the FeatureList invariant puts a
\* non-source f at the leftmost index of the non-source region whose feature
\* has a location greater than f's (at the end if there is none), so after
\* every non-source feature whose location compares equal to f's; it puts a
\* source f right after the last feature of the leading source run; and all
\* other features keep their relative order.
C3_AddPosition ==
    (added # NoFeature /\ FeatureListInvariant(before)) =>
        LET idx == ClaimedIndex(before, added)
        IN  /\ ~panicked
            /\ Len(ff) = Len(before) + 1
            /\ ff[idx] = added
            /\ \A k \in 1..Len(before) :
                  ff[IF k < idx THEN k ELSE k + 1] = before[k]
            /\ ~IsSource(added) =>
                  \A k \in 1..Len(before) :
                      (/\ ~IsSource(before[k])
                       /\ ~LocationLess(before[k].Location, added.Location).v
                       /\ ~LocationLess(added.Location, before[k].Location).v)
                          => k < idx

C3_Witness ==
    /\ Len(before) = 3
    /\ FeatureListInvariant(before)
    /\ ~IsSource(before[1])
    /\ ~IsSource(added)
    /\ ~LocationLess(before[2].Location, added.Location).v
    /\ ~LocationLess(added.Location, before[2].Location).v
    /\ before[2].Location # added.Location
    /\ LocationLess(added.Location, before[3].Location).v
    /\ ff[3] = added

\* ------------------------------------------- claims about the round trip
RECURSIVE HasEmptyList(_)
\* Whether a Join or an Order without children occurs in the location.
HasEmptyList(l) ==
    CASE l.kind = "Complement" -> HasEmptyList(l.Location)
      [] IsList(l) ->
            \/ l.Locations = <<>>
            \/ \E i \in 1..Len(l.Locations) : HasEmptyList(l.Locations[i])
      [] OTHER -> FALSE

\* C4 as stated: for every location L over non-negative coordinates,
\* AsLocation(L.String()) succeeds and returns a location equal to L.
C4_RoundTrip == phase = "parsed" => (parsed.ok /\ parsed.val = rtLoc)

\* C4 amended: for every location L over non-negative coordinates in which
\* every Join and Order has at least one child, AsLocation(L.String())
\* succeeds and returns a location equal to L; when a Join or Order of L has
\* no child, AsLocation(L.String()) returns an error.
C4_RoundTripNonEmptyLists ==
    phase = "parsed" =>
        /\ parsed.ok = ~HasEmptyList(rtLoc)
        /\ parsed.ok => parsed.val = rtLoc

C4_Witness ==
    /\ phase = "parsed"
    /\ rtLoc.kind = "Join"
    /\ Len(rtLoc.Locations) = 2
    /\ rtLoc.Locations[1].kind = "Complement"
    /\ rtLoc.Locations[2].kind = "Order"
    /\ \E i \in 1..2 : rtLoc.Locations[2].Locations[i].kind = "Range"
                        /\ rtLoc.Locations[2].Locations[i].Partial5
    /\ parsed.ok
    /\ parsed.val = rtLoc

\* ------------------------------------------------------ claims about Locate
RECURSIVE PrefixLen(_, _)
\* The total Len() of the first k children.
PrefixLen(cs, k) == IF k = 0 THEN 0 ELSE PrefixLen(cs, k - 1) + LocLen(cs[k])

RECURSIVE ConcatLocate(_, _, _)
\* The bytes of the first k children, one after the other.
ConcatLocate(cs, seq, k) ==
    IF k = 0 THEN <<>> ELSE ConcatLocate(cs, seq, k - 1) \o Locate(cs[k], seq)

RECURSIVE HasComplement(_)
\* Whether a Complement occurs anywhere in the location.
HasComplement(l) ==
    CASE l.kind = "Complement" -> TRUE
      [] IsList(l) -> \E k \in 1..Len(l.Locations) : HasComplement(l.Locations[k])
      [] OTHER -> FALSE

\* Len() is the sum of the children's, Map(i) is the Map of the child whose
\* segment holds i, and the bytes are the children's bytes in child order.
Concatenation(l, seq, bytes) ==
    LET cs == l.Locations
        n == Len(cs)
    IN  /\ LocLen(l) = PrefixLen(cs, n)
        /\ \A i \in 0..(LocLen(l) - 1) :
            \E k \in 1..n :
                /\ PrefixLen(cs, k - 1) <= i
                /\ i < PrefixLen(cs, k)
                /\ Map(l, i) = Map(cs[k], i - PrefixLen(cs, k - 1))
                /\ ~Map(l, i).panic
        /\ bytes = ConcatLocate(cs, seq, n)

\* Byte j of the located bytes is the byte of seq at Map(j).
BytesFollowMap(l, seq, bytes) ==
    /\ Len(bytes) = LocLen(l)
    /\ \A j \in 0..(LocLen(l) - 1) : bytes[j + 1] = seq[Map(l, j).v + 1]

\* C11 as stated: for a Join or Order, Len(), Map and Locate follow the
\* concatenation of the children, and byte j of Locate(seq) is seq byte
\* Map(j) when no child is a Complement.
C11_Concatenation ==
    locate.done =>
        /\ Concatenation(locate.loc, locate.seq, locate.bytes)
        /\ (\A k \in 1..Len(locate.loc.Locations) :
                locate.loc.Locations[k].kind # "Complement")
            => BytesFollowMap(locate.loc, locate.seq, locate.bytes)

\* C11 amended: for a Join or Order, Len(), Map and Locate follow the
\* concatenation of the children, and byte j of Locate(seq) is seq byte
\* Map(j) when no Complement occurs anywhere below the location.
C11_ConcatenationNoComplementBelow ==
    locate.done =>
        /\ Concatenation(locate.loc, locate.seq, locate.bytes)
        /\ ~HasComplement(locate.loc)
            => BytesFollowMap(locate.loc, locate.seq, locate.bytes)

\* C11 witness: Locate has run on a Join of two children of different
\* lengths, none a Complement, and on a sequence with different bytes.
C11_Witness ==
    /\ locate.done
    /\ locate.loc.kind = "Join"
    /\ Len(locate.loc.Locations) = 2
    /\ LocLen(locate.loc.Locations[1]) = 2
    /\ LocLen(locate.loc.Locations[2]) = 1
    /\ ~HasComplement(locate.loc)
    /\ locate.bytes = <<"c", "a", "c">>
    /\ locate.seq[1] = "c" /\ locate.seq[2] = "c" /\ locate.seq[3] = "a"

\* ----------------------------------------------------- claims about parsing
\* What AsLocation returned for the scenario input.
ScenarioParsed == parse.phase = "parsed" /\ parse.text = ScenarioInput

\* The scenario input parses, formats back to itself, and its Map(0) is 4.
ScenarioRoundTrip ==
    /\ parse.res.ok
    /\ String(parse.res.val) = ScenarioInput
    /\ Map(parse.res.val, 0) = MapValue(4)

\* C12 as stated: AsLocation of `join(complement(5..10),order(20..25,30..35))`
\* succeeds, the result formats back to the same string, its Map(0) is 4 and
\* its Len() is 17.
C12_Scenario ==
    ScenarioParsed => (ScenarioRoundTrip /\ LocLen(parse.res.val) = 17)

\* C12 amended: AsLocation of `join(complement(5..10),order(20..25,30..35))`
\* succeeds, the result formats back to the same string, its Map(0) is 4 and
\* its Len() is 18, the three ranges having 6 positions each.
C12_ScenarioLen18 ==
    ScenarioParsed =>
        /\ ScenarioRoundTrip
        /\ LocLen(parse.res.val) = 18
        /\ parse.res.val =
            NewJoinLocation(<<NewComplementLocation(NewRangeLocation(4, 10)),
                              NewOrderLocation(<<NewRangeLocation(19, 25),
                                                 NewRangeLocation(29, 35)>>)>>)

\* C12 witness: AsLocation has returned a Join for the scenario input.
C12_Witness == ScenarioParsed /\ parse.res.ok /\ parse.res.val.kind = "Join"

\* ------------------------------------------------------ claims about Delete
\* The deletion scenario: a sequence of length 20 with a feature at `5..15`,
\* and Delete(s, 6, 5) has been called.
DeleteScenario ==
    /\ edit.done
    /\ Len(edit.seq.bytes) = 20
    /\ edit.seq.features[2].Location = NewRangeLocation(4, 15)
    /\ edit.i = 6
    /\ edit.n = 5

\* C13: for a sequence of length 20 carrying a feature at `5..15`,
\* Delete(s, 6, 5) yields a sequence of length 15 whose feature location is
\* `5..10`.
C13_DeleteAcrossFeature ==
    DeleteScenario =>
        /\ Len(edit.out.bytes) = 15
        /\ Len(edit.out.features) = 2
        /\ String(edit.out.features[2].Location) = <<"5", ".", ".", "1", "0">>

\* ---------------------------------------------- claims about the range grammar
\* The text `s..e>`.
TrailingMarkText(s0, e0) == Itoa(s0) \o <<".", ".">> \o Itoa(e0) \o <<">">>

\* The text `s..>e`.
LeadingMarkText(s0, e0) == Itoa(s0) \o <<".", ".", ">">> \o Itoa(e0)

\* The text `<s..e`.
Partial5Text(s0, e0) == <<"<">> \o Itoa(s0) \o <<".", ".">> \o Itoa(e0)

\* The integers written in the range texts.
RangeInts == 1..(MaxParseCoord + 1)

\* C14: for integers s <= e, AsLocation of `s..e>` succeeds and returns a
\* Range with Partial3 set, just as `s..>e` does; a leading '<' sets
\* Partial5.
C14_TrailingMark ==
    parse.phase = "parsed" =>
        \A s0 \in RangeInts, e0 \in RangeInts :
            s0 <= e0 =>
                /\ parse.text = TrailingMarkText(s0, e0) =>
                    /\ parse.res.ok
                    /\ parse.res.val = NewPartialRangeLocation(s0 - 1, e0, FALSE, TRUE)
                /\ parse.text = LeadingMarkText(s0, e0) =>
                    /\ parse.res.ok
                    /\ parse.res.val = NewPartialRangeLocation(s0 - 1, e0, FALSE, TRUE)
                /\ parse.text = Partial5Text(s0, e0) =>
                    /\ parse.res.ok
                    /\ parse.res.val = NewPartialRangeLocation(s0 - 1, e0, TRUE, FALSE)

\* --------------------------------------------- claims about exact consumption
\* The texts of the locations: what String returns for them.
LocationTexts == {String(l) : l \in RoundTripLocs}

\* The integers written in a text are stored as the claim says.
IntegersStored ==
    \A s0 \in RangeInts, e0 \in 0..(MaxParseCoord + 1) :
        /\ parse.text = Itoa(s0) => parse.res.val = NewPointLocation(s0 - 1)
        /\ parse.text = Itoa(s0) \o <<".", ".">> \o Itoa(e0)
            => parse.res.val = NewRangeLocation(s0 - 1, e0)
        /\ parse.text = Itoa(s0) \o <<".">> \o Itoa(e0)
            => parse.res.val = NewAmbiguousLocation(s0 - 1, e0)
        /\ parse.text = Itoa(s0) \o <<"^">> \o Itoa(e0)
            => parse.res.val = NewBetweenLocation(s0 - 1, e0)

\* C15: AsLocation succeeds only on a text that is a location's text from its
\* first byte to its last; a location text followed by bytes that do not make
\* it another location text gives an error and no location; on success start
\* and point integers are stored minus 1 and end integers unchanged.
C15_ExactConsumption ==
    parse.phase = "parsed" =>
        /\ (parse.base # NoLocation /\ parse.sfx # <<>> /\ parse.text \notin LocationTexts)
            => (~parse.res.ok /\ parse.res.val = NoLocation)
        /\ parse.res.ok => (String(parse.res.val) = parse.text /\ IntegersStored)
        /\ ~parse.res.ok => parse.res.val = NoLocation

\* C15 witness: AsLocation has returned an error for `1..2,`, the text of a
\* Range followed by a comma.
C15_Witness ==
    /\ parse.phase = "parsed"
    /\ parse.base = NewRangeLocation(0, 2)
    /\ parse.sfx = <<",">>
    /\ parse.text = <<"1", ".", ".", "2", ",">>
    /\ ~parse.res.ok

\* ------------------------------------------------- claims about backtracking
\* C16: an alternative of LocationParser that returns an error leaves the
\* cursor and the depth of the Push/Pop stack as they were when it started.
C16_AlternativesBacktrack ==
    (parse.phase = "tried" /\ ~parse.alt.ok) =>
        /\ parse.alt.pos = AlternativeStart(parse.text).pos
        /\ parse.alt.depth = Len(AlternativeStart(parse.text).stk)

\* ------------------------------------------- claims about feature formatting
RECURSIVE SourceOrderNames(_, _)
\* The names of the order map that are still among the qualifiers, by index
\* from i on.
SourceOrderNames(f, i) ==
    IF i >= Cardinality(DOMAIN f.order) THEN <<>>
    ELSE LET name == CHOOSE m \in DOMAIN f.order : f.order[m] = i
         IN  (IF name \in DOMAIN f.Qualifiers THEN <<name>> ELSE <<>>)
                \o SourceOrderNames(f, i + 1)

\* The names added at runtime, in ascending alphabetical order.
RuntimeNames(f) ==
    LET late == {m \in DOMAIN f.Qualifiers : m \notin DOMAIN f.order /\ m # "translation"}
        pick == {k \in 1..Len(QualifierNames) : QualifierNames[k] \in late}
        nth(j) == CHOOSE k \in pick : Cardinality({h \in pick : h < k}) = j - 1
    IN  [j \in 1..Cardinality(pick) |-> QualifierNames[nth(j)]]

\* The order the claim gives: source order, runtime names, `translation`.
ClaimedNames(f) ==
    SourceOrderNames(f, 0) \o RuntimeNames(f)
        \o (IF "translation" \in DOMAIN f.Qualifiers THEN <<"translation">> ELSE <<>>)

RECURSIVE ClaimedLines(_, _, _)
\* Every value of every claimed name, in order.
ClaimedLines(f, ns, k) ==
    IF k > Len(ns) THEN <<>>
    ELSE [j \in 1..Len(f.Qualifiers[ns[k]]) |-> <<ns[k], f.Qualifiers[ns[k]][j]>>]
            \o ClaimedLines(f, ns, k + 1)

\* C17: formatting a feature emits every qualifier name present in its
\* Qualifiers exactly once, with all its values in order: the names of the
\* parse-time order map in source order, then the names added at runtime in
\* alphabetical order, then `translation`; for any qualifiers removed or
\* added after parsing.
C17_QualifierOrder ==
    fq.done =>
        /\ ~fq.out.panic
        /\ fq.out.lines = ClaimedLines(fq.f, ClaimedNames(fq.f), 1)

\* -------------------------------------------------------- claims about Help
\* The place of a byte among the keys, digits first, then Aa..Zz.
KeyIndex(c) == CHOOSE k \in 1..Len(keys) : keys[k] = c

\* The byte a row is ordered by: its alias, or the first byte of its name.
RowKey(row) == IF row.short # NoShort THEN row.short ELSE Head(row.long)

\* C18: Help lists exactly one row for every registered argument, value
\* option or switch, with or without an alias, and the rows are ordered by
\* alias in the order digits then Aa..Zz, a name without an alias standing
\* at the first byte of its long name.
C18_HelpRows ==
    cli.phase = "helped" =>
        /\ \A long \in Registered(cli.parser) :
            Cardinality({k \in 1..Len(cli.help) : cli.help[k].long = long}) = 1
        /\ \A k \in 1..Len(cli.help) : cli.help[k].long \in Registered(cli.parser)
        /\ \A k \in 1..(Len(cli.help) - 1) :
            KeyIndex(RowKey(cli.help[k])) <= KeyIndex(RowKey(cli.help[k + 1]))

\* ------------------------------------------------------- claims about Parse
\* The flag a flag argument ends on: the long name after --, or the flag of
\* the last alias after -.
IsLongFlag(arg) == HasPrefix(arg, <<"-", "-">>)

EndsOnValueOption(parser, arg) ==
    IF IsLongFlag(arg) THEN TrimPrefix(arg, <<"-", "-">>) \in DOMAIN parser.values
    ELSE /\ Len(arg) > 1
         /\ arg[Len(arg)] \in DOMAIN parser.aliases
         /\ parser.aliases[arg[Len(arg)]] \in DOMAIN parser.values

ValueOptionOf(parser, arg) ==
    IF IsLongFlag(arg) THEN parser.values[TrimPrefix(arg, <<"-", "-">>)]
    ELSE parser.values[parser.aliases[arg[Len(arg)]]]

\* The flag argument takes the argument after it as its value: it ends on a
\* value option that accepts the text, and after a long name the text is not
\* itself a flag.
TakesValue(parser, arg, rest) ==
    /\ rest # <<>>
    /\ EndsOnValueOption(parser, arg)
    /\ Set(ValueOptionOf(parser, arg), Head(rest)).ok
    /\ IsLongFlag(arg) => ~HasPrefix(Head(rest), <<"-">>)

RECURSIVE NonFlagArgs(_, _)
\* The non-flag arguments of a command line, in order: the arguments that
\* are neither flags nor the value of the flag before them.
NonFlagArgs(parser, args) ==
    IF args = <<>> THEN <<>>
    ELSE IF HasPrefix(Head(args), <<"-">>)
    THEN IF TakesValue(parser, Head(args), Tail(args))
         THEN NonFlagArgs(parser, Tail(Tail(args)))
         ELSE NonFlagArgs(parser, Tail(args))
    ELSE <<Head(args)>> \o NonFlagArgs(parser, Tail(args))

\* The positionals after Parse hold the non-flag arguments pos in
\* registration order, mandatory first; a positional without one is empty.
Assigned(registered, filled, pos) ==
    LET m == Len(registered.mandatory)
    IN  /\ \A j \in 1..m : filled.mandatory[j].Value.v = pos[j]
        /\ \A j \in 1..Len(registered.optional) :
            filled.optional[j].Value.v = (IF m + j <= Len(pos) THEN pos[m + j] ELSE <<>>)

\* What the claim says of a Parse call that met no flag error.
PositionalOutcome(registered, out, pos) ==
    LET m == Len(registered.mandatory)
        o == Len(registered.optional)
        k == Len(pos)
    IN  /\ ~out.panic
        /\ IF k < m
           THEN out.err = "missing" /\ out.name = registered.mandatory[k + 1].Name
           ELSE IF k > m + o
           THEN out.err = "surplus" /\ out.surplus = SubSeq(pos, m + o + 1, k)
           ELSE out.err = "none" /\ Assigned(registered, out.parser, pos)

\* C19: with m mandatory and o optional positionals and no command, Parse
\* on arguments with k non-flag arguments and no flag error returns the
\* error naming the first unfilled mandatory argument when k < m, the error
\* listing the surplus arguments when k > m + o, and otherwise succeeds with
\* the positionals assigned in registration order from the non-flag
\* arguments in command-line order.
C19_Positionals ==
    (cli.phase = "parsed" /\ cli.out.err # "flag") =>
        PositionalOutcome(cli.parser, cli.out, NonFlagArgs(cli.parser, cli.args))

\* ------------------------------------------------- claims about subcommands
\* C20: every file a subcommand opens, input, guest, feature table or
\* output, is closed before the subcommand returns, on every exit path.
C20_FilesClosed == run.pc = "returned" => run.open = {}

\* C21: every subcommand that writes through a buffered writer flushes it
\* before returning, on every exit path after the writer was made, and a
\* flush that fails makes the subcommand return an error.
C21_FlushedOnExit ==
    (run.pc = "returned" /\ run.writer) =>
        (run.flushed /\ (run.flushFailed => run.exit = "error"))

\* C25: insert, when the guest file gave no sequence, returns an error and
\* has written no record.
C25_NoGuestIsError ==
    (run.pc = "returned" /\ run.cmd = "insert" /\ run.read /\ run.guests = 0) =>
        (run.exit = "error" /\ run.written = 0)

\* ------------------------------------------- claims about Shift and lengths
\* End - Start of a Range, Ambiguous or Between.
SpanLen(l) == l.End - l.Start

\* The number of positions of [a,b) that lie in [lo,hi).
Overlap(a, b, lo, hi) ==
    LET from == IF a > lo THEN a ELSE lo
        to == IF b < hi THEN b ELSE hi
    IN  IF to > from THEN to - from ELSE 0

\* C27: a deletion Shift(offset, amount < 0) whose deleted interval
\* [offset, offset + |amount|) does not intersect a Range, Ambiguous or
\* Between [a,b) of length >= 1 returns true and preserves the length: the
\* location is unchanged when the interval lies after it and is moved left
\* by |amount| when the interval lies before it.
C27_DisjointDeletion ==
    (IsSpan(prev) /\ amt < 0 /\ SpanLen(prev) >= 1
        /\ Overlap(prev.Start, prev.End, off, off - amt) = 0) =>
        /\ ok
        /\ SpanLen(loc) = SpanLen(prev)
        /\ off >= prev.End => loc = prev
        /\ off - amt <= prev.Start =>
              (loc.Start = prev.Start + amt /\ loc.End = prev.End + amt)

\* C28: when a deletion Shift(offset, amount < 0) on a Range, Ambiguous or
\* Between [a,b) returns true, the new length is b - a minus the number of
\* positions of [a,b) in the deleted interval [offset, offset + |amount|),
\* and the new end does not exceed the length of the coordinate space after
\* the deletion, for every space that held both [a,b) and the interval.
C28_DeletionLength ==
    (IsSpan(prev) /\ amt < 0 /\ ok) =>
        LET space == IF prev.End > off - amt THEN prev.End ELSE off - amt
        IN  /\ SpanLen(loc) =
                  SpanLen(prev) - Overlap(prev.Start, prev.End, off, off - amt)
            /\ loc.End <= space + amt

\* C29: an insertion Shift(offset, amount > 0) changes the length of a
\* Range, Ambiguous or Between [a,b) only when a < offset < b, where the
\* length grows by amount; an insertion at offset <= a or at offset >= b,
\* exactly at the end b included, leaves the length unchanged.
C29_InsertionLength ==
    (IsSpan(prev) /\ amt > 0) =>
        SpanLen(loc) = SpanLen(prev) +
            (IF prev.Start < off /\ off < prev.End THEN amt ELSE 0)

\* -------------------------------------------------- claims about Parse (2)
\* C26: Parser.Parse returns a result or an error, without panicking, for
\* every argument list; a registered long switch or option that is the last
\* argument, without '=', sets the switch or returns an error.
C26_ParseNeverPanics == cli.phase = "parsed" => ~cli.out.panic

\* ------------------------------------------- claims about LocationLess (2)
\* C30: LocationLess returns without panicking for every pair of locations
\* that AsLocation accepts, ranges written with the end smaller than the
\* start and Join and Order locations that hold such ranges included.
C30_LessNeverPanics == compared => (~less.panic /\ ~lessBack.panic)

\* ------------------------------------------- claims about select and clear
\* The selector of the command line holds for the feature: the feature has
\* the key the text names and, when the text names a qualifier, has it.
UserMatch(query, f) ==
    LET slash == SlashAt(query)
        key == IF slash = 0 THEN query ELSE SubSeq(query, 1, slash - 1)
    IN  /\ NameOf(key) = f.Key
        /\ slash # 0 => NameOf(SubSeq(query, slash + 1, Len(query))) \in DOMAIN f.Qualifiers

RECURSIVE KeptInOrder(_, _, _)
\* out is the features of the list that are in wanted, in the order of the
\* list.
KeptInOrder(features, out, wanted) ==
    IF features = <<>> THEN out = <<>>
    ELSE IF Head(features) \in wanted
    THEN out # <<>> /\ Head(out) = Head(features)
            /\ KeptInOrder(Tail(features), Tail(out), wanted)
    ELSE KeptInOrder(Tail(features), out, wanted)

\* C22: for every selector and both settings of -v, the list select writes
\* holds every feature keyed source and holds another feature exactly when
\* the selector matches it (without -v) or does not match it (with -v), in
\* the input order; clear writes exactly the features keyed source.
C22_SelectKeepsSources ==
    LET given == {sel.features[k] : k \in 1..Len(sel.features)}
    IN  /\ sel.cmd = "select" =>
              KeptInOrder(sel.features, sel.out,
                  {f \in given : f.Key = "source" \/ (UserMatch(sel.text, f) # sel.invert)})
        /\ sel.cmd = "clear" =>
              KeptInOrder(sel.features, sel.out, {f \in given : f.Key = "source"})

\* C22 witness: select -v gene/note has written the source and the gene
\* without a note, in their order, and dropped the gene with a note.
C22_Witness ==
    /\ sel.cmd = "select"
    /\ sel.invert
    /\ sel.text = <<"g", "e", "n", "e", "/", "n", "o", "t", "e">>
    /\ Len(sel.features) = 3
    /\ Len(sel.out) = 2
    /\ sel.out[1].Key = "gene"
    /\ sel.out[2].Key = "source"
    /\ sel.features[2].Key = "gene"
    /\ "note" \in DOMAIN sel.features[2].Qualifiers

====
